---- MODULE Spec2Model ----
(***************************************************************************)
(* Canvas MCP server: the assignment search of src/src/mcpCore.ts behind   *)
(* the worker entry point (src/src/worker.ts) and the stdio entry point    *)
(* (src/unnamed/part_000), with the date and markup helpers they use.      *)
(*                                                                         *)
(* Strings are sequences of one-character strings.  A nullable JavaScript  *)
(* value is a tagged record (Null, Undefined, Str(s), Num(n)).  An instant *)
(* is a day number since 1970-01-01 (UTC) and a millisecond of that day,   *)
(* so that millisecond precision needs no number beyond 32 bits.  The      *)
(* process's local time zone is a fixed offset from UTC (no DST change).   *)
(***************************************************************************)
EXTENDS Integers, Sequences, FiniteSets, TLC

\* ------------------------------------------------------------------ bounds

\* Courses a course listing returns at most.
MaxCourses == 2
\* Assignments one course's page holds at most.
MaxAssignments == 2

\* ------------------------------------------------------- JavaScript values

Null == [tag |-> "null"]
Undefined == [tag |-> "undefined"]
Str(s) == [tag |-> "str", v |-> s]
Num(n) == [tag |-> "num", v |-> n]

\* JavaScript truthiness, as `if (x)`, `x ? a : b`, `!x`, `x && y` read a value.
Truthy(x) ==
  CASE x.tag = "null" -> FALSE
    [] x.tag = "undefined" -> FALSE
    [] x.tag = "str" -> x.v # <<>>
    [] x.tag = "num" -> x.v # 0
    [] OTHER -> TRUE

\* ----------------------------------------------------------------- strings

LowerChar(c) ==
  CASE c = "A" -> "a" [] c = "B" -> "b" [] c = "C" -> "c" [] c = "D" -> "d"
    [] c = "E" -> "e" [] c = "F" -> "f" [] c = "G" -> "g" [] c = "H" -> "h"
    [] c = "I" -> "i" [] c = "J" -> "j" [] c = "K" -> "k" [] c = "L" -> "l"
    [] c = "M" -> "m" [] c = "N" -> "n" [] c = "O" -> "o" [] c = "P" -> "p"
    [] c = "Q" -> "q" [] c = "R" -> "r" [] c = "S" -> "s" [] c = "T" -> "t"
    [] c = "U" -> "u" [] c = "V" -> "v" [] c = "W" -> "w" [] c = "X" -> "x"
    [] c = "Y" -> "y" [] c = "Z" -> "z"
    [] OTHER -> c

RECURSIVE toLowerCase(_)
toLowerCase(s) ==
  IF s = <<>> THEN <<>> ELSE <<LowerChar(Head(s))>> \o toLowerCase(Tail(s))

\* U+00A0, which the HTML entity &nbsp; names; \s matches it.
NBSP == "\\u00a0"

\* What the regular expression class \s matches.
IsSpace(c) == c \in {" ", "\t", "\n", NBSP}

StartsWithAt(s, i, p) ==
  /\ i + Len(p) - 1 <= Len(s)
  /\ \A k \in 1..Len(p) : s[i + k - 1] = p[k]

\* String.prototype.includes
includes(s, t) == \E i \in 1..(Len(s) + 1) : StartsWithAt(s, i, t)

RECURSIVE ReplaceAllFrom(_, _, _, _)
ReplaceAllFrom(s, i, pat, rep) ==
  IF i > Len(s) THEN <<>>
  ELSE IF StartsWithAt(s, i, pat)
       THEN rep \o ReplaceAllFrom(s, i + Len(pat), pat, rep)
       ELSE <<s[i]>> \o ReplaceAllFrom(s, i + 1, pat, rep)

\* s.replace(/pat/g, rep) for a literal pattern
ReplaceAll(s, pat, rep) == ReplaceAllFrom(s, 1, pat, rep)

\* The first index j >= i with s[j] = c, or 0.
RECURSIVE IndexFrom(_, _, _)
IndexFrom(s, i, c) ==
  IF i > Len(s) THEN 0
  ELSE IF s[i] = c THEN i ELSE IndexFrom(s, i + 1, c)

\* s.replace(/<[^>]+>/g, ''): a match starts at a "<" that is followed by at
\* least one character other than ">" and then a ">".
RECURSIVE StripTagsFrom(_, _)
StripTagsFrom(s, i) ==
  IF i > Len(s) THEN <<>>
  ELSE LET j == IF s[i] = "<" THEN IndexFrom(s, i + 1, ">") ELSE 0
       IN  IF j >= i + 2
           THEN StripTagsFrom(s, j + 1)
           ELSE <<s[i]>> \o StripTagsFrom(s, i + 1)

\* The first index j >= i with s[j] not white space, or Len(s) + 1.
RECURSIVE SkipSpace(_, _)
SkipSpace(s, i) ==
  IF i > Len(s) THEN i
  ELSE IF IsSpace(s[i]) THEN SkipSpace(s, i + 1) ELSE i

\* s.split(/\s+/): the fields between the maximal runs of white space; a run
\* at either end leaves an empty field there, and "" splits into [""].
RECURSIVE SplitFrom(_, _, _)
SplitFrom(s, i, cur) ==
  IF i > Len(s) THEN <<cur>>
  ELSE IF IsSpace(s[i])
       THEN <<cur>> \o SplitFrom(s, SkipSpace(s, i), <<>>)
       ELSE SplitFrom(s, i + 1, Append(cur, s[i]))

splitWhitespace(s) == SplitFrom(s, 1, <<>>)

\* Array.prototype.filter with the predicate (term) => term.length > 0
RECURSIVE filterNonEmpty(_)
filterNonEmpty(ts) ==
  IF ts = <<>> THEN <<>>
  ELSE IF Len(Head(ts)) > 0
       THEN <<Head(ts)>> \o filterNonEmpty(Tail(ts))
       ELSE filterNonEmpty(Tail(ts))

\* htmlToPlainText with the tags out and no entity decoded.
htmlToPlainText_TagsOnly(html) ==
  IF ~Truthy(html) THEN <<>> ELSE StripTagsFrom(html.v, 1)

\* htmlToPlainText of mcpCore.ts: tags out, then &nbsp; and &amp; decoded.
htmlToPlainText(html) ==
  IF ~Truthy(html) THEN <<>>
  ELSE ReplaceAll(ReplaceAll(StripTagsFrom(html.v, 1), <<"&", "n", "b", "s", "p", ";">>, <<" ">>),
                  <<"&", "a", "m", "p", ";">>, <<"&">>)

\* htmlToPlainText of the stdio server: the text content of the body JSDOM
\* parses.  On the markup used here (complete tags, named entities) that is
\* the markup with its tags out and its entities decoded, &nbsp; to U+00A0.
htmlToPlainTextDom(html) ==
  IF ~Truthy(html) THEN <<>>
  ELSE ReplaceAll(ReplaceAll(StripTagsFrom(html.v, 1), <<"&", "n", "b", "s", "p", ";">>, <<NBSP>>),
                  <<"&", "a", "m", "p", ";">>, <<"&">>)

DigitChar(n) ==
  CASE n = 0 -> "0" [] n = 1 -> "1" [] n = 2 -> "2" [] n = 3 -> "3" [] n = 4 -> "4"
    [] n = 5 -> "5" [] n = 6 -> "6" [] n = 7 -> "7" [] n = 8 -> "8" [] n = 9 -> "9"

\* String(n) of a natural number.
RECURSIVE NumberToString(_)
NumberToString(n) ==
  IF n < 10 THEN <<DigitChar(n)>>
  ELSE NumberToString(n \div 10) \o <<DigitChar(n % 10)>>

\* ---------------------------------------------------------------- markdown

\* Whether the pattern p, in lower case, is at s[i..] whatever the case (the
\* i flag).
StartsWithAtCI(s, i, p) ==
  /\ i + Len(p) - 1 <= Len(s)
  /\ \A k \in 1..Len(p) : LowerChar(s[i + k - 1]) = p[k]

\* Where the opening tag at s[i] ends: <name[^>]*> with attrs, <name>
\* without; 0 when there is none.
OpenEnd(s, i, name, attrs) ==
  IF ~StartsWithAtCI(s, i, <<"<">> \o name) THEN 0
  ELSE IF attrs THEN IndexFrom(s, i + Len(name) + 1, ">")
  ELSE IF StartsWithAtCI(s, i + Len(name) + 1, <<">">>) THEN i + Len(name) + 1
  ELSE 0

\* The least index of a set of indexes, 0 of the empty set.
First(indexes) ==
  IF indexes = {} THEN 0 ELSE CHOOSE j \in indexes : \A k \in indexes : j <= k

\* The first "<" of s[i..], 0 when there is none.
NextTag(s, i) == First({ j \in i..Len(s) : s[j] = "<" })

\* Where the element <name ...>(.*?)</name> whose opening tag ends at e has
\* its closing tag: the first one after e, which (.*?) reaches with the s
\* flag, or with no line terminator on the way; 0 when no element starts
\* there, no closing tag follows or (.*?) cannot reach it.
ElementClose(s, e, name, dotAll) ==
  LET c == First({ j \in (e + 1)..Len(s) : StartsWithAtCI(s, j, <<"<", "/">> \o name \o <<">">>) })
  IN  IF e = 0 \/ c = 0 THEN 0
      ELSE IF dotAll \/ \A j \in (e + 1)..(c - 1) : s[j] \notin {"\n", "\r"} THEN c
      ELSE 0

\* A replacement of the shape pre$1post.
Wrap(pre, post) == [kind |-> "wrap", pre |-> pre, post |-> post]

RECURSIVE ReplaceElements(_, _, _, _, _, _)
RECURSIVE NumberItems(_, _, _)

\* What replaces one match: the template with $1 filled in, or, for a list,
\* what the replacer function returns for the whole match.  The ordered
\* list's inner replacer is a function, and what a function returns is put
\* in as it is: its "$1" stays "$1".
Render(how, content, whole) ==
  CASE how.kind = "wrap" -> how.pre \o content \o how.post
    [] how.kind = "ul" ->
         ReplaceElements(whole, 1, <<"l", "i">>, FALSE, FALSE, Wrap(<<"-", " ">>, <<"\n">>))
    [] how.kind = "ol" -> NumberItems(whole, 1, 1)

\* s.replace(/<name[^>]*>(.*?)<\/name>/gi, ...) from s[i] on: what is before
\* the next "<" stays, and a match can only start there.  A match from j,
\* with its opening tag ending at e and its closing tag starting at c, is
\* replaced and the rest of s after it is searched on.
ReplaceElements(s, i, name, attrs, dotAll, how) ==
  LET j == NextTag(s, i)
      e == OpenEnd(s, j, name, attrs)
      c == ElementClose(s, e, name, dotAll)
  IN  IF j = 0 THEN SubSeq(s, i, Len(s))
      ELSE IF c > 0
      THEN SubSeq(s, i, j - 1)
             \o Render(how, SubSeq(s, e + 1, c - 1), SubSeq(s, j, c + Len(name) + 2))
             \o ReplaceElements(s, c + Len(name) + 3, name, attrs, dotAll, how)
      ELSE SubSeq(s, i, j) \o ReplaceElements(s, j + 1, name, attrs, dotAll, how)

\* match.replace(/<li>(.*?)<\/li>/gi, () => `${index++}. $1\n`) from s[i] on.
NumberItems(s, i, index) ==
  LET j == NextTag(s, i)
      c == ElementClose(s, OpenEnd(s, j, <<"l", "i">>, FALSE), <<"l", "i">>, FALSE)
  IN  IF j = 0 THEN SubSeq(s, i, Len(s))
      ELSE IF c > 0
      THEN SubSeq(s, i, j - 1) \o NumberToString(index) \o <<".", " ", "$", "1", "\n">>
             \o NumberItems(s, c + 5, index + 1)
      ELSE SubSeq(s, i, j) \o NumberItems(s, j + 1, index)

\* s.replace(/<br\s*\/?>(?!\n)/gi, '\n'), or the same without the lookahead,
\* from s[i] on; <br\s*\/?> at s[j] ends at e, 0 when there is none.
RECURSIVE ReplaceBreaks(_, _, _)
ReplaceBreaks(s, i, lookahead) ==
  LET j == NextTag(s, i)
      k == SkipSpace(s, j + 3)
      e == IF ~StartsWithAtCI(s, j, <<"<", "b", "r">>) THEN 0
           ELSE IF StartsWithAt(s, k, <<"/", ">">>) THEN k + 1
           ELSE IF StartsWithAt(s, k, <<">">>) THEN k
           ELSE 0
  IN  IF j = 0 THEN SubSeq(s, i, Len(s))
      ELSE IF e > 0 /\ ~(lookahead /\ StartsWithAt(s, e + 1, <<"\n">>))
      THEN SubSeq(s, i, j - 1) \o <<"\n">> \o ReplaceBreaks(s, e + 1, lookahead)
      ELSE SubSeq(s, i, j) \o ReplaceBreaks(s, j + 1, lookahead)

\* s.replace(/<[^>]+>/g, '') with least = 2, s.replace(/<[^>]*>/g, '') with
\* least = 1, from s[i] on: a span from a "<" to the next ">", at least that
\* far from it.
RECURSIVE StripSpans(_, _, _)
StripSpans(s, i, least) ==
  LET j == NextTag(s, i)
      e == First({ k \in (j + 1)..Len(s) : s[k] = ">" })
  IN  IF j = 0 THEN SubSeq(s, i, Len(s))
      ELSE IF e >= j + least THEN SubSeq(s, i, j - 1) \o StripSpans(s, e + 1, least)
      ELSE SubSeq(s, i, j) \o StripSpans(s, j + 1, least)

Headings(s, gap) ==
  ReplaceElements(
    ReplaceElements(
      ReplaceElements(s, 1, <<"h", "1">>, TRUE, FALSE, Wrap(<<"#", " ">>, gap)),
      1, <<"h", "2">>, TRUE, FALSE, Wrap(<<"#", "#", " ">>, gap)),
    1, <<"h", "3">>, TRUE, FALSE, Wrap(<<"#", "#", "#", " ">>, gap))

Emphasis(s) ==
  ReplaceElements(
    ReplaceElements(
      ReplaceElements(
        ReplaceElements(s, 1, <<"s", "t", "r", "o", "n", "g">>, FALSE, FALSE, Wrap(<<"*", "*">>, <<"*", "*">>)),
        1, <<"b">>, FALSE, FALSE, Wrap(<<"*", "*">>, <<"*", "*">>)),
      1, <<"e", "m">>, FALSE, FALSE, Wrap(<<"*">>, <<"*">>)),
    1, <<"i">>, FALSE, FALSE, Wrap(<<"*">>, <<"*">>))

Lists(s) ==
  ReplaceElements(ReplaceElements(s, 1, <<"u", "l">>, FALSE, TRUE, [kind |-> "ul"]),
                  1, <<"o", "l">>, FALSE, TRUE, [kind |-> "ol"])

Paragraphs(s) == ReplaceElements(s, 1, <<"p">>, TRUE, FALSE, Wrap(<<>>, <<"\n", "\n">>))

\* convertHtmlToMarkdown without its final pass.
convertHtmlToMarkdown_KeepsTags(html) ==
  Paragraphs(ReplaceBreaks(Lists(Emphasis(Headings(html, <<"\n", "\n">>))), 1, TRUE))

\* convertHtmlToMarkdown of mcpCore.ts, of a string.
convertHtmlToMarkdown(html) ==
  IF html = <<>> THEN <<>>
  ELSE StripSpans(
         Paragraphs(ReplaceBreaks(Lists(Emphasis(Headings(html, <<"\n", "\n">>))), 1, TRUE)), 1, 2)

\* The markdown case of the stdio server's get-assignment, of a string.
stdioMarkdown(html) ==
  StripSpans(
    Paragraphs(ReplaceBreaks(Lists(Emphasis(Headings(html, <<"\n">>))), 1, FALSE)), 1, 1)

\* ------------------------------------------------------------------- dates

MsPerDay == 24 * 60 * 60 * 1000

\* An instant; NoInstant stands for null and for an Invalid Date (NaN).
Instant(d, ms) == [ok |-> TRUE, d |-> d, ms |-> ms]
NoInstant == [ok |-> FALSE, d |-> 0, ms |-> 0]

\* d days and ms milliseconds, ms of either sign, as an instant.
Norm(d, ms) == Instant(d + (ms \div MsPerDay), ms % MsPerDay)

\* a.getTime() - b.getTime(), as its sign
TimeDiff(a, b) ==
  IF a.d # b.d THEN (IF a.d < b.d THEN -1 ELSE 1)
  ELSE IF a.ms # b.ms THEN (IF a.ms < b.ms THEN -1 ELSE 1)
  ELSE 0

Digits == {"0", "1", "2", "3", "4", "5", "6", "7", "8", "9"}

DigitVal(c) ==
  CASE c = "0" -> 0 [] c = "1" -> 1 [] c = "2" -> 2 [] c = "3" -> 3
    [] c = "4" -> 4 [] c = "5" -> 5 [] c = "6" -> 6 [] c = "7" -> 7
    [] c = "8" -> 8 [] c = "9" -> 9

\* Whether s[i..i+n-1] are digits, and their value.
AreDigits(s, i, n) == \A k \in i..(i + n - 1) : k <= Len(s) /\ s[k] \in Digits
RECURSIVE NumAt(_, _, _)
NumAt(s, i, n) ==
  IF n = 0 THEN 0 ELSE 10 * NumAt(s, i, n - 1) + DigitVal(s[i + n - 1])

\* The day number of a date of the proleptic Gregorian calendar.
DaysFromCivil(y, m, d) ==
  LET yy == IF m <= 2 THEN y - 1 ELSE y
      era == yy \div 400
      yoe == yy - era * 400
      mp == IF m > 2 THEN m - 3 ELSE m + 9
      doy == ((153 * mp + 2) \div 5) + d - 1
      doe == yoe * 365 + (yoe \div 4) - (yoe \div 100) + doy
  IN  era * 146097 + doe - 719468

IsLeap(y) == (y % 4 = 0 /\ y % 100 # 0) \/ y % 400 = 0

DaysInMonth(y, m) ==
  IF m = 2 THEN (IF IsLeap(y) THEN 29 ELSE 28)
  ELSE IF m \in {4, 6, 9, 11} THEN 30 ELSE 31

\* /^\d{4}-\d{2}-\d{2}$/
MatchesYMD(s) ==
  /\ Len(s) = 10
  /\ AreDigits(s, 1, 4) /\ s[5] = "-"
  /\ AreDigits(s, 6, 2) /\ s[8] = "-"
  /\ AreDigits(s, 9, 2)

VARIABLES
  entry,            \* the entry point serving the call: "worker" or "stdio"
  tz,               \* the process's local time zone, minutes east of UTC
  pc,               \* where the handler is: idle, scope, assignments, done;
                    \* util and called in the helpers' own specification
  query, dueBefore, dueAfter, includeCompleted, courseId,   \* the parameters
  courses,          \* the resolved course scope
  idx,              \* the course whose assignments are being fetched
  allResults,       \* the merged matches
  requests,         \* the remote requests issued so far, in order
  scopeAnswer,      \* how the scope request ended: none, ok, failed
  fetched,          \* what the remote answered for each course, in order
  result,           \* what the caller gets
  call,             \* the helper last applied (the helpers' own specification)
  thrown,           \* the error that left the handler, NoError when none did
  http              \* the HTTP request the worker serves, NoRequest when none

vars == <<entry, tz, pc, query, dueBefore, dueAfter, includeCompleted, courseId,
          courses, idx, allResults, requests, scopeAnswer, fetched, result, call,
          thrown, http>>

params == <<query, dueBefore, dueAfter, includeCompleted, courseId>>

\* new Date(year, monthIndex, day): local midnight; a month or a day out of
\* range carries over, and a year 0..99 means 1900 + year.
DateLocal(year, monthIndex, day) ==
  LET y == IF year \in 0..99 THEN 1900 + year ELSE year
      ym == y * 12 + monthIndex
  IN  Norm(DaysFromCivil(ym \div 12, (ym % 12) + 1, 1) + day - 1, -(tz * 60000))

\* The day number of year-month-day, every field in range.
FieldsInRange(y, m, d) == m \in 1..12 /\ d \in 1..DaysInMonth(y, m)

\* Whether s[11..] is THH:mm:ssZ or THH:mm:ss.sssZ.
HasClock(s) ==
  /\ Len(s) \in {20, 24} /\ s[11] = "T" /\ s[Len(s)] = "Z"
  /\ AreDigits(s, 12, 2) /\ s[14] = ":"
  /\ AreDigits(s, 15, 2) /\ s[17] = ":"
  /\ AreDigits(s, 18, 2)
  /\ (Len(s) = 24 => s[20] = "." /\ AreDigits(s, 21, 3))

\* The millisecond of the day of h:mi:sec.ms, or -1 with a field out of range.
ClockMs(h, mi, sec, ms) ==
  IF h <= 23 /\ mi <= 59 /\ sec <= 59
  THEN (h * 60 + mi) * 60000 + sec * 1000 + ms
  ELSE -1

\* The date of the fields read, in UTC.
DateUTC(y, m, d, ms) ==
  IF FieldsInRange(y, m, d) /\ ms >= 0
  THEN Instant(DaysFromCivil(y, m, d), ms)
  ELSE NoInstant

\* new Date(string), for the strings of the date-time string format:
\* YYYY-MM-DD (UTC midnight), YYYY-MM-DDTHH:mm:ssZ and YYYY-MM-DDTHH:mm:ss.sssZ,
\* with every field in range.  Any other string here holds no digit, and is
\* an Invalid Date.
DateParse(s) ==
  IF Len(s) < 10 \/ ~MatchesYMD(SubSeq(s, 1, 10)) THEN NoInstant
  ELSE DateUTC(NumAt(s, 1, 4), NumAt(s, 6, 2), NumAt(s, 9, 2),
               IF Len(s) = 10 THEN 0
               ELSE IF HasClock(s)
                    THEN ClockMs(NumAt(s, 12, 2), NumAt(s, 15, 2), NumAt(s, 18, 2),
                                 IF Len(s) = 24 THEN NumAt(s, 21, 3) ELSE 0)
                    ELSE -1)

\* parseDate: null for a falsy or an unparsable string.
parseDate(dateStr) ==
  IF ~Truthy(dateStr) THEN NoInstant
  ELSE IF MatchesYMD(dateStr.v)
       THEN DateLocal(NumAt(dateStr.v, 1, 4), NumAt(dateStr.v, 6, 2) - 1,
                      NumAt(dateStr.v, 9, 2))
       ELSE DateParse(dateStr.v)

\* date.setHours(h, m, s, ms), given as the millisecond of the local day.
setHours(date, msOfDay) ==
  Norm(Norm(date.d, date.ms + tz * 60000).d, msOfDay - tz * 60000)

EndOfDay == MsPerDay - 1

\* isDateInRange with a missing due date failing whenever a bound is given.
isDateInRange_NoDateFails(date, before, after) ==
  IF ~Truthy(date) \/ ~parseDate(date).ok
  THEN ~Truthy(before) /\ ~Truthy(after)
  ELSE /\ Truthy(before) /\ parseDate(before).ok =>
            TimeDiff(parseDate(date), setHours(parseDate(before), EndOfDay)) <= 0
       /\ Truthy(after) /\ parseDate(after).ok =>
            TimeDiff(parseDate(date), setHours(parseDate(after), 0)) >= 0

\* isDateInRange with the bounds exclusive.
isDateInRange_Exclusive(date, before, after) ==
  IF ~Truthy(date) \/ ~parseDate(date).ok
  THEN TRUE
  ELSE /\ Truthy(before) /\ parseDate(before).ok =>
            TimeDiff(parseDate(date), setHours(parseDate(before), EndOfDay)) < 0
       /\ Truthy(after) /\ parseDate(after).ok =>
            TimeDiff(parseDate(date), setHours(parseDate(after), 0)) > 0

isDateInRange(date, before, after) ==
  IF ~Truthy(date) THEN TRUE
  ELSE LET dueDate == parseDate(date)
           beforeDate == parseDate(before)
           afterDate == parseDate(after)
       IN  IF ~dueDate.ok THEN TRUE
           ELSE IF /\ Truthy(before) /\ beforeDate.ok
                   /\ TimeDiff(dueDate, setHours(beforeDate, EndOfDay)) > 0
                THEN FALSE
           ELSE IF /\ Truthy(after) /\ afterDate.ok
                   /\ TimeDiff(dueDate, setHours(afterDate, 0)) < 0
                THEN FALSE
           ELSE TRUE

\* ------------------------------------------------------- the remote's data

\* The assignments a course's page may hold.  The last one has no name: the
\* remote's JSON need not have the shape of CanvasAssignment.
Assignment(id, name, description, due_at) ==
  [id |-> id, name |-> name, description |-> description, due_at |-> due_at]

AssignmentPool ==
  { Assignment(1, Str(<<"H", "W">>), Null, Str(<<"2", "0", "2", "4", "-", "0", "6", "-", "0", "2", "T", "1", "2", ":", "0", "0", ":", "0", "0", "Z">>)),
    Assignment(2, Str(<<"Q", "u", "i", "z">>), Str(<<"<", "b", ">", "h", "<", "/", "b", ">", "w", "&", "a", "m", "p", ";">>), Null),
    Assignment(3, Str(<<"L", "a", "b">>), Str(<<>>), Str(<<"T", "B", "D">>)),
    Assignment(4, Str(<<"T", "e", "s", "t">>), Str(<<"x">>), Str(<<"2", "0", "2", "4", "-", "0", "6", "-", "0", "1", "T", "1", "2", ":", "0", "0", ":", "0", "0", "Z">>)),
    Assignment(5, Null, Null, Str(<<>>)) }

\* A page of assignments: distinct assignments in any order.
AssignmentPages ==
  { s \in UNION { [1..n -> AssignmentPool] : n \in 0..MaxAssignments } :
      \A i, j \in DOMAIN s : i # j => s[i] # s[j] }

Course(id) == [id |-> id, name |-> <<"C", DigitChar(id)>>]

\* A course listing: the first n courses of the account.
CourseListings == { [i \in 1..n |-> Course(i)] : n \in 0..MaxCourses }

\* ---------------------------------------------------------- the parameters

Queries == { <<>>, <<" ">>, <<"H", "w", " ">> }
DueBeforeParams == { Undefined, Str(<<"2", "0", "2", "4", "-", "0", "6", "-", "0", "1">>), Str(<<"T", "B", "D">>) }
DueAfterParams == { Undefined, Str(<<"2", "0", "2", "4", "-", "0", "6", "-", "0", "1">>), Str(<<"2", "0", "2", "4", "-", "0", "6", "-", "0", "2">>) }
CourseIdParams == { Undefined, Num(0), Num(7) }

\* The zone of the process that serves the search (UTC-5), in minutes.
ServerOffset == -(5 * 60)

\* ------------------------------------------------------------ the requests

\* `/courses/${courseId}`
CourseRequest(id) ==
  [kind |-> "course", course |-> id, state |-> "-", bucket |-> "-"]

\* `/courses?enrollment_state=${courseState}`
ListingRequest(courseState) ==
  [kind |-> "courses", course |-> Undefined, state |-> courseState, bucket |-> "-"]

\* bucketHint with no bucket ever asked for.
bucketHint_Never == "none"

\* paramsUrl's bucket in mcpCore.ts; the bucket of the URL in the stdio server.
bucketHint ==
  IF entry = "worker"
  THEN IF Truthy(dueAfter) /\ ~Truthy(dueBefore) THEN "future"
       ELSE IF Truthy(dueBefore) /\ ~Truthy(dueAfter) THEN "past"
       ELSE "none"
  ELSE IF Truthy(dueAfter) /\ Truthy(dueBefore) THEN "due_after,due_before"
       ELSE IF Truthy(dueAfter) THEN "due_after"
       ELSE IF Truthy(dueBefore) THEN "due_before"
       ELSE "none"

\* `/courses/${course.id}/assignments?per_page=50` and its parameters
AssignmentsRequest(course) ==
  [kind |-> "assignments", course |-> Num(course.id), state |-> "-",
   bucket |-> bucketHint]

\* -------------------------------------------------------------- the search

\* The scope request: the single course when courseId is truthy.
ScopeRequest ==
  IF Truthy(courseId) THEN CourseRequest(courseId)
  ELSE ListingRequest(IF includeCompleted THEN "all" ELSE "active")

\* searchTerms: mcpCore.ts drops the empty terms, the stdio server keeps them.
searchTerms ==
  IF entry = "worker"
  THEN filterNonEmpty(splitWhitespace(toLowerCase(query)))
  ELSE splitWhitespace(toLowerCase(query))

someTermIn(terms, text) == \E k \in 1..Len(terms) : includes(text, terms[k])

plainText(description) ==
  IF entry = "worker" THEN htmlToPlainText(description)
  ELSE htmlToPlainTextDom(description)

\* The text filter's predicate, for an assignment whose name is a string.
textMatch(assignment) ==
  LET titleMatch == someTermIn(searchTerms, toLowerCase(assignment.name.v))
      descriptionMatch ==
        IF Truthy(assignment.description)
        THEN someTermIn(searchTerms, toLowerCase(plainText(assignment.description)))
        ELSE FALSE
  IN  titleMatch \/ descriptionMatch

\* textFilterRuns with the filter run whatever the terms are.
textFilterRuns_Always == TRUE

\* Whether the text filter is run at all.
textFilterRuns == entry = "stdio" \/ Len(searchTerms) > 0

\* assignment.name.toLowerCase() throws on a name that is no string; the
\* throw leaves the course's try block before anything is pushed.
filterThrows(assignments) ==
  /\ textFilterRuns
  /\ \E i \in 1..Len(assignments) : assignments[i].name.tag # "str"

matchingAssignments(assignments) ==
  IF textFilterRuns THEN SelectSeq(assignments, textMatch) ELSE assignments

\* dateKeep with nothing filtered by date.
dateKeep_Always(assignment) == TRUE

\* The date filter's predicate: passed unseen when a bucket was asked for.
dateKeep(assignment) ==
  IF \/ (Truthy(dueAfter) /\ ~Truthy(dueBefore) /\ bucketHint # "none")
     \/ (Truthy(dueBefore) /\ ~Truthy(dueAfter) /\ bucketHint # "none")
  THEN TRUE
  ELSE isDateInRange(assignment.due_at, dueBefore, dueAfter)

\* The stdio server has no date filter of its own.
dateFilteredAssignments(assignments) ==
  IF entry = "worker" THEN SelectSeq(matchingAssignments(assignments), dateKeep)
  ELSE matchingAssignments(assignments)

\* AssignmentMatch with the first course of the scope named whatever the
\* course is.
AssignmentMatch_FirstCourse(assignment, course) ==
  [id |-> assignment.id, name |-> assignment.name,
   description |-> assignment.description, due_at |-> assignment.due_at,
   courseName |-> courses[1].name, courseId |-> courses[1].id]

\* { ...assignment, courseName: course.name, courseId: course.id }
AssignmentMatch(assignment, course) ==
  [id |-> assignment.id, name |-> assignment.name,
   description |-> assignment.description, due_at |-> assignment.due_at,
   courseName |-> course.name, courseId |-> course.id]

\* dateFilteredAssignments.forEach((assignment) => allResults.push(...))
RECURSIVE tagAll(_, _)
tagAll(kept, course) ==
  IF kept = <<>> THEN <<>>
  ELSE <<AssignmentMatch(Head(kept), course)>> \o tagAll(Tail(kept), course)

\* What one course adds to allResults: nothing when its filtering throws.
courseMatches(course, assignments) ==
  IF filterThrows(assignments) THEN <<>>
  ELSE tagAll(dateFilteredAssignments(assignments), course)

\* The time a comparator reads from due_at: parseDate(due_at) in mcpCore.ts,
\* new Date(due_at) in the stdio server.
dueTime(due_at) ==
  IF entry = "worker" THEN parseDate(due_at) ELSE DateParse(due_at.v)

\* dateA.getTime() - dateB.getTime() as its sign; 0 where mcpCore.ts returns
\* 0 for a null date and where the stdio server's difference is NaN.
compareTimes(dateA, dateB) ==
  IF ~dateA.ok \/ ~dateB.ok THEN 0 ELSE TimeDiff(dateA, dateB)

\* The comparator of allResults.sort, as the sign of what it returns.
compareFn(a, b) ==
  IF ~Truthy(a.due_at) /\ ~Truthy(b.due_at) THEN 0
  ELSE IF ~Truthy(a.due_at) THEN 1
  ELSE IF ~Truthy(b.due_at) THEN -1
  ELSE compareTimes(dueTime(a.due_at), dueTime(b.due_at))

\* Array.prototype.sort as V8 runs it on an array shorter than 64: the run
\* the array starts with is found (and reversed when strictly descending),
\* and the rest is inserted by binary insertion.
RECURSIVE CountRun(_, _, _)
CountRun(arr, n, descending) ==
  IF n >= Len(arr) THEN n
  ELSE LET order == compareFn(arr[n + 1], arr[n])
       IN  IF (descending /\ order >= 0) \/ (~descending /\ order < 0) THEN n
           ELSE CountRun(arr, n + 1, descending)

RECURSIVE Reverse(_)
Reverse(s) == IF s = <<>> THEN <<>> ELSE Append(Reverse(Tail(s)), Head(s))

RECURSIVE BinarySearch(_, _, _, _)
BinarySearch(arr, pivot, left, right) ==
  IF left >= right THEN left
  ELSE LET mid == left + ((right - left) \div 2)
       IN  IF compareFn(pivot, arr[mid]) < 0
           THEN BinarySearch(arr, pivot, left, mid)
           ELSE BinarySearch(arr, pivot, mid + 1, right)

\* The array with arr[start] moved to index left, the ones between shifted.
InsertAt(arr, start, left) ==
  SubSeq(arr, 1, left - 1) \o <<arr[start]>>
    \o SubSeq(arr, left, start - 1) \o SubSeq(arr, start + 1, Len(arr))

RECURSIVE BinaryInsertionSort(_, _)
BinaryInsertionSort(arr, start) ==
  IF start > Len(arr) THEN arr
  ELSE BinaryInsertionSort(
         InsertAt(arr, start, BinarySearch(arr, arr[start], 1, start)), start + 1)

\* The array with its first run made ascending.
MakeRun(arr, run, descending) ==
  IF descending
  THEN Reverse(SubSeq(arr, 1, run)) \o SubSeq(arr, run + 1, Len(arr))
  ELSE arr

SortFromRun(arr, run, descending) ==
  BinaryInsertionSort(MakeRun(arr, run, descending), run + 1)

SortDirected(arr, descending) ==
  SortFromRun(arr, CountRun(arr, 2, descending), descending)

ArraySort(arr) ==
  IF Len(arr) < 2 THEN arr
  ELSE SortDirected(arr, compareFn(arr[2], arr[1]) < 0)

\* What the caller gets.
NoResult == [status |-> "none", isError |-> FALSE, items |-> <<>>]
Failed == [status |-> "failed", isError |-> TRUE, items |-> <<>>]
NoCourses == [status |-> "noCourses", isError |-> FALSE, items |-> <<>>]
NoAssignments == [status |-> "noAssignments", isError |-> FALSE, items |-> <<>>]
Found(items) == [status |-> "found", isError |-> FALSE, items |-> items]

\* What a template literal makes of a value.
Interpolate(x) ==
  CASE x.tag = "null" -> <<"n", "u", "l", "l">>
    [] x.tag = "undefined" -> <<"u", "n", "d", "e", "f", "i", "n", "e", "d">>
    [] x.tag = "str" -> x.v
    [] x.tag = "num" -> NumberToString(x.v)

\* Date.prototype.toLocaleString, in the en-US locale and the local zone:
\* M/D/YYYY, h:mm:ss AM or PM of the local wall clock.
toLocaleString(date) ==
  LET Pad2(n) == <<DigitChar(n \div 10), DigitChar(n % 10)>>
      local == Norm(date.d, date.ms + tz * 60000)
      z == local.d + 719468
      era == z \div 146097
      doe == z - era * 146097
      yoe == (doe - (doe \div 1460) + (doe \div 36524) - (doe \div 146096)) \div 365
      doy == doe - (365 * yoe + (yoe \div 4) - (yoe \div 100))
      mp == (5 * doy + 2) \div 153
      m == IF mp < 10 THEN mp + 3 ELSE mp - 9
      y == yoe + era * 400 + (IF m <= 2 THEN 1 ELSE 0)
      d == doy - ((153 * mp + 2) \div 5) + 1
      seconds == local.ms \div 1000
      hour == (seconds \div 3600) % 12
  IN  IF ~date.ok THEN <<"I", "n", "v", "a", "l", "i", "d", " ", "D", "a", "t", "e">>
      ELSE NumberToString(m) \o <<"/">> \o NumberToString(d) \o <<"/">> \o NumberToString(y)
             \o <<",", " ">> \o NumberToString(IF hour = 0 THEN 12 ELSE hour)
             \o <<":">> \o Pad2((seconds \div 60) % 60) \o <<":">> \o Pad2(seconds % 60)
             \o (IF seconds < 12 * 3600 THEN <<" ", "A", "M">> ELSE <<" ", "P", "M">>)

\* formatDate of mcpCore.ts.
formatDate(dateStr) ==
  IF ~Truthy(dateStr) THEN <<"N", "o", " ", "d", "a", "t", "e", " ", "s", "e", "t">>
  ELSE IF ~DateParse(dateStr.v).ok THEN <<"I", "n", "v", "a", "l", "i", "d", " ", "d", "a", "t", "e">>
  ELSE toLocaleString(DateParse(dateStr.v))

\* assignment.due_at ? new Date(assignment.due_at).toLocaleString() : 'No due date'
dueDateText(due_at) ==
  IF Truthy(due_at) THEN toLocaleString(DateParse(due_at.v)) ELSE <<"N", "o", " ", "d", "u", "e", " ", "d", "a", "t", "e">>

\* allResults.map(...).join('\n\n'), of the lines of the search's result
\* list.
RECURSIVE resultsList(_)
resultsList(items) ==
  LET resultLine(assignment) ==
        <<"-", " ", "C", "o", "u", "r", "s", "e", ":", " ">> \o assignment.courseName
          \o <<" ", "(", "I", "D", ":", " ">> \o NumberToString(assignment.courseId) \o <<")", "\n", " ", " ", "A", "s", "s", "i", "g", "n", "m", "e", "n", "t", ":", " ">>
          \o Interpolate(assignment.name)
          \o <<" ", "(", "I", "D", ":", " ">> \o NumberToString(assignment.id) \o <<")", "\n", " ", " ", "D", "u", "e", ":", " ">>
          \o dueDateText(assignment.due_at)
  IN  IF items = <<>> THEN <<>>
      ELSE IF Len(items) = 1 THEN resultLine(items[1])
      ELSE resultLine(items[1]) \o <<"\n", "\n">> \o resultsList(Tail(items))

\* What a failed remote request answers: the status and the body.
RemoteError(status, body) == [status |-> status, body |-> body]
RemoteErrors == { RemoteError(<<"4", "0", "1">>, <<"d", "e", "n", "i", "e", "d">>), RemoteError(<<"5", "0", "0">>, <<"b", "o", "o", "m">>) }
NoError == RemoteError(<<>>, <<>>)
NoRequest ==
  [method |-> "none", path |-> "none", authorization |-> Null, token |-> Null,
   canvas_domain |-> Null, xCanvasDomain |-> Null, body |-> Null, ok |-> FALSE]

\* `Canvas API error: ${response.status} - ${error}`
errorMessage(error) == <<"C", "a", "n", "v", "a", "s", " ", "A", "P", "I", " ", "e", "r", "r", "o", "r", ":", " ">> \o error.status \o <<" ", "-", " ">> \o error.body

\* The text of the worker's catch.
GenericFailure == <<"A", "n", " ", "e", "r", "r", "o", "r", " ", "o", "c", "c", "u", "r", "r", "e", "d", " ", "w", "h", "i", "l", "e", " ", "p", "r", "o", "c", "e", "s", "s", "i", "n", "g", " ", "y", "o", "u", "r", " ", "r", "e", "q", "u", "e", "s", "t", ".">>

\* What the caller reads when the search throws: the worker's fixed text,
\* the stdio tool's `Search failed: ${error.message}`.
searchFailureText(error) ==
  IF entry = "worker" THEN GenericFailure
  ELSE <<"S", "e", "a", "r", "c", "h", " ", "f", "a", "i", "l", "e", "d", ":", " ">> \o errorMessage(error)

\* noResultsText without the date phrase.
noResultsText_NoDates == <<"N", "o", " ", "a", "s", "s", "i", "g", "n", "m", "e", "n", "t", "s", " ", "f", "o", "u", "n", "d", " ", "m", "a", "t", "c", "h", "i", "n", "g", " ", "\"">> \o query \o <<"\"", ".">>

\* The text returned when allResults is empty, with dateRange.join(' and ')
\* after ` due `: the stdio server always quotes the query and never names
\* a bound.
noResultsText ==
  LET dateRangeText ==
        IF Truthy(dueAfter) /\ Truthy(dueBefore)
        THEN <<" ", "d", "u", "e", " ", "a", "f", "t", "e", "r", " ">> \o dueAfter.v \o <<" ", "a", "n", "d", " ", "b", "e", "f", "o", "r", "e", " ">> \o dueBefore.v
        ELSE IF Truthy(dueAfter) THEN <<" ", "d", "u", "e", " ", "a", "f", "t", "e", "r", " ">> \o dueAfter.v
        ELSE IF Truthy(dueBefore) THEN <<" ", "d", "u", "e", " ", "b", "e", "f", "o", "r", "e", " ">> \o dueBefore.v
        ELSE <<>>
  IN
  IF entry = "worker"
  THEN <<"N", "o", " ", "a", "s", "s", "i", "g", "n", "m", "e", "n", "t", "s", " ", "f", "o", "u", "n", "d">>
         \o (IF query # <<>> THEN <<" ", "m", "a", "t", "c", "h", "i", "n", "g", " ", "\"">> \o query \o <<"\"">> ELSE <<>>)
         \o dateRangeText \o <<".">>
  ELSE <<"N", "o", " ", "a", "s", "s", "i", "g", "n", "m", "e", "n", "t", "s", " ", "f", "o", "u", "n", "d", " ", "m", "a", "t", "c", "h", "i", "n", "g", " ", "\"">> \o query \o <<"\"", ".">>

NoCall == [fn |-> "none"]

\* The text of the search's answer.
resultText ==
  CASE result.status = "failed" -> searchFailureText(thrown)
    [] result.status = "noCourses" -> <<"N", "o", " ", "c", "o", "u", "r", "s", "e", "s", " ", "f", "o", "u", "n", "d", ".">>
    [] result.status = "noAssignments" -> noResultsText
    [] result.status = "found" ->
         <<"F", "o", "u", "n", "d", " ">> \o NumberToString(Len(result.items))
           \o <<" ", "a", "s", "s", "i", "g", "n", "m", "e", "n", "t", "s", " ", "m", "a", "t", "c", "h", "i", "n", "g", " ", "\"">> \o query \o <<"\"", ":", "\n", "\n">>
           \o resultsList(result.items)
    [] OTHER -> <<>>

Init ==
  /\ entry \in {"worker", "stdio"}
  /\ tz = ServerOffset
  /\ pc = "idle"
  /\ query = <<>> /\ dueBefore = Undefined /\ dueAfter = Undefined
  /\ includeCompleted = FALSE /\ courseId = Undefined
  /\ courses = <<>> /\ idx = 0 /\ allResults = <<>>
  /\ requests = <<>> /\ scopeAnswer = "none" /\ fetched = <<>>
  /\ result = NoResult
  /\ call = NoCall
  /\ thrown = NoError /\ http = NoRequest

\* The handler is called: it reads its parameters and asks for the scope.
Search ==
  /\ pc = "idle"
  /\ query' \in Queries
  /\ dueBefore' \in DueBeforeParams
  /\ dueAfter' \in DueAfterParams
  /\ includeCompleted' \in BOOLEAN
  /\ courseId' \in CourseIdParams
  /\ requests' = <<ScopeRequest'>>
  /\ pc' = "scope"
  /\ UNCHANGED <<entry, tz, courses, idx, allResults, scopeAnswer, fetched, result, call, thrown, http>>

\* ScopeFails with the failure swallowed: an empty scope instead of a throw.
ScopeFails_Swallowed ==
  /\ pc = "scope"
  /\ scopeAnswer' = "failed"
  /\ result' = NoCourses
  /\ pc' = "done"
  /\ UNCHANGED <<entry, tz, params, courses, idx, allResults, requests, fetched, call, thrown, http>>

\* The scope request fails: the handler throws, and the entry point (the
\* worker's catch, the stdio tool's outer catch) answers with an error.
ScopeFails ==
  /\ pc = "scope"
  /\ scopeAnswer' = "failed"
  /\ thrown' \in RemoteErrors
  /\ result' = Failed
  /\ pc' = "done"
  /\ UNCHANGED <<entry, tz, params, courses, idx, allResults, requests, fetched, call, http>>

\* After the scope, with the loop entered: the first course's request, or,
\* with no course, the sort and the answer.
EnterLoop(scope) ==
  IF Len(scope) = 0
  THEN /\ result' = NoAssignments
       /\ pc' = "done"
       /\ UNCHANGED <<idx, requests>>
  ELSE /\ idx' = 1
       /\ requests' = Append(requests, AssignmentsRequest(scope[1]))
       /\ pc' = "assignments"
       /\ UNCHANGED result

\* ScopeResolved without the return on an empty scope.
ScopeResolved_NoShortCircuit ==
  /\ pc = "scope"
  /\ scopeAnswer' = "ok"
  /\ \E scope \in (IF Truthy(courseId) THEN {<<Course(courseId.v)>>} ELSE CourseListings) :
       courses' = scope /\ EnterLoop(scope)
  /\ UNCHANGED <<entry, tz, params, allResults, fetched, call, thrown, http>>

\* The scope request is answered: with no course the handler returns, else
\* it asks for the first course's assignments.
ScopeResolved ==
  /\ pc = "scope"
  /\ scopeAnswer' = "ok"
  /\ \E scope \in (IF Truthy(courseId) THEN {<<Course(courseId.v)>>} ELSE CourseListings) :
       /\ courses' = scope
       /\ IF Len(scope) = 0
          THEN /\ result' = NoCourses
               /\ pc' = "done"
               /\ UNCHANGED <<idx, requests>>
          ELSE /\ idx' = 1
               /\ requests' = Append(requests, AssignmentsRequest(scope[1]))
               /\ pc' = "assignments"
               /\ UNCHANGED result
  /\ UNCHANGED <<entry, tz, params, allResults, fetched, call, thrown, http>>

\* After course idx: the next course's request, or the sort and the answer.
Continue(results) ==
  IF idx < Len(courses)
  THEN /\ idx' = idx + 1
       /\ requests' = Append(requests, AssignmentsRequest(courses[idx + 1]))
       /\ allResults' = results
       /\ UNCHANGED <<pc, result>>
  ELSE /\ allResults' = ArraySort(results)
       /\ result' = IF Len(results) = 0 THEN NoAssignments ELSE Found(allResults')
       /\ pc' = "done"
       /\ UNCHANGED <<idx, requests>>

\* A course's page arrives: it is filtered and its matches are pushed.
AssignmentsFetched ==
  /\ pc = "assignments"
  /\ \E page \in AssignmentPages :
       /\ fetched' = Append(fetched, [course |-> courses[idx], ok |-> TRUE, page |-> page])
       /\ Continue(allResults \o courseMatches(courses[idx], page))
  /\ UNCHANGED <<entry, tz, params, courses, scopeAnswer, call, thrown, http>>

\* AssignmentsFail without the try block: the failure ends the search.
AssignmentsFail_Aborts ==
  /\ pc = "assignments"
  /\ fetched' = Append(fetched, [course |-> courses[idx], ok |-> FALSE, page |-> <<>>])
  /\ result' = Failed
  /\ pc' = "done"
  /\ UNCHANGED <<entry, tz, params, courses, idx, allResults, requests, scopeAnswer, call, thrown, http>>

\* AssignmentsFail with what the earlier courses gave dropped.
AssignmentsFail_Resets ==
  /\ pc = "assignments"
  /\ fetched' = Append(fetched, [course |-> courses[idx], ok |-> FALSE, page |-> <<>>])
  /\ Continue(<<>>)
  /\ UNCHANGED <<entry, tz, params, courses, scopeAnswer, call, thrown, http>>

\* AssignmentsFail with the failed course asked for once more.
AssignmentsFail_Retries ==
  /\ pc = "assignments"
  /\ fetched' = Append(fetched, [course |-> courses[idx], ok |-> FALSE, page |-> <<>>])
  /\ requests' = Append(requests, AssignmentsRequest(courses[idx]))
  /\ pc' = "done"
  /\ result' = NoAssignments
  /\ UNCHANGED <<entry, tz, params, courses, idx, allResults, scopeAnswer, call, thrown, http>>

\* A course's request fails: the catch logs the error and swallows it.
AssignmentsFail ==
  /\ pc = "assignments"
  /\ fetched' = Append(fetched, [course |-> courses[idx], ok |-> FALSE, page |-> <<>>])
  /\ Continue(allResults)
  /\ UNCHANGED <<entry, tz, params, courses, scopeAnswer, call, thrown, http>>

Next == Search \/ ScopeFails \/ ScopeResolved \/ AssignmentsFetched \/ AssignmentsFail

Spec == Init /\ [][Next]_vars

\* The remote never answers the request for a course's assignments: fetch
\* is awaited with no time limit, so the handler waits and nothing of it
\* runs again.
AssignmentsSilent ==
  /\ pc = "assignments"
  /\ pc' = "waiting"
  /\ UNCHANGED <<entry, tz, params, courses, idx, allResults, requests, scopeAnswer,
                 fetched, result, call, thrown, http>>

NextLive == Next \/ AssignmentsSilent

\* The search with a remote that may stay silent; whatever can run does.
SpecLive == Init /\ [][NextLive]_vars /\ WF_vars(NextLive)

\* ------------------------------------------------ the helpers on their own

\* The zones a process may run in: UTC-5 and UTC+2, in minutes.
LocalOffsets == { -(5 * 60), 2 * 60 }

\* A due date to try, with the instant it names in each zone.
DueCase(s, d, ms) == [s |-> s, has |-> TRUE, at |-> [z \in LocalOffsets |-> Instant(d, ms)]]
NoDue(s) == [s |-> s, has |-> FALSE, at |-> [z \in LocalOffsets |-> NoInstant]]

DueCases ==
  { NoDue(Null), NoDue(Str(<<>>)), NoDue(Str(<<"T", "B", "D">>)),
    DueCase(Str(<<"2", "0", "2", "4", "-", "0", "5", "-", "3", "1", "T", "2", "1", ":", "5", "9", ":", "5", "9", ".", "9", "9", "9", "Z">>), 19874, 79199999),
    DueCase(Str(<<"2", "0", "2", "4", "-", "0", "5", "-", "3", "1", "T", "2", "2", ":", "0", "0", ":", "0", "0", ".", "0", "0", "0", "Z">>), 19874, 79200000),
    DueCase(Str(<<"2", "0", "2", "4", "-", "0", "6", "-", "0", "1", "T", "0", "4", ":", "5", "9", ":", "5", "9", ".", "9", "9", "9", "Z">>), 19875, 17999999),
    DueCase(Str(<<"2", "0", "2", "4", "-", "0", "6", "-", "0", "1", "T", "0", "5", ":", "0", "0", ":", "0", "0", ".", "0", "0", "0", "Z">>), 19875, 18000000),
    DueCase(Str(<<"2", "0", "2", "4", "-", "0", "6", "-", "0", "1", "T", "2", "1", ":", "5", "9", ":", "5", "9", ".", "9", "9", "9", "Z">>), 19875, 79199999),
    DueCase(Str(<<"2", "0", "2", "4", "-", "0", "6", "-", "0", "1", "T", "2", "2", ":", "0", "0", ":", "0", "0", ".", "0", "0", "0", "Z">>), 19875, 79200000),
    DueCase(Str(<<"2", "0", "2", "4", "-", "0", "6", "-", "0", "2", "T", "0", "4", ":", "5", "9", ":", "5", "9", ".", "9", "9", "9", "Z">>), 19876, 17999999),
    DueCase(Str(<<"2", "0", "2", "4", "-", "0", "6", "-", "0", "2", "T", "0", "5", ":", "0", "0", ":", "0", "0", ".", "0", "0", "0", "Z">>), 19876, 18000000),
    DueCase(Str(<<"2", "0", "2", "4", "-", "0", "6", "-", "1", "5", "T", "2", "3", ":", "5", "9", ":", "0", "0", "Z">>), 19889, 86340000),
    [s |-> Str(<<"2", "0", "2", "4", "-", "0", "6", "-", "0", "1">>), has |-> TRUE,
     at |-> [z \in LocalOffsets |-> Norm(19875, -(z * 60000))]] }

\* A bound to try, with the local calendar day it names in each zone.
BoundCase(s, day) == [s |-> s, has |-> TRUE, day |-> [z \in LocalOffsets |-> day]]
NoBound(s) == [s |-> s, has |-> FALSE, day |-> [z \in LocalOffsets |-> 0]]

BoundCases ==
  { NoBound(Undefined), NoBound(Str(<<>>)), NoBound(Str(<<"T", "B", "D">>)),
    BoundCase(Str(<<"2", "0", "2", "4", "-", "0", "6", "-", "0", "1">>), 19875),
    BoundCase(Str(<<"2", "0", "2", "4", "-", "0", "5", "-", "0", "1">>), 19844),
    [s |-> Str(<<"2", "0", "2", "4", "-", "0", "6", "-", "0", "1", "T", "2", "3", ":", "3", "0", ":", "0", "0", "Z">>), has |-> TRUE,
     day |-> [z \in LocalOffsets |-> IF z < 30 THEN 19875 ELSE 19876]] }

InitUtil ==
  /\ entry = "worker"
  /\ tz \in LocalOffsets
  /\ pc = "util"
  /\ query = <<>> /\ dueBefore = Undefined /\ dueAfter = Undefined
  /\ includeCompleted = FALSE /\ courseId = Undefined
  /\ courses = <<>> /\ idx = 0 /\ allResults = <<>>
  /\ requests = <<>> /\ scopeAnswer = "none" /\ fetched = <<>>
  /\ result = NoResult
  /\ call = NoCall
  /\ thrown = NoError /\ http = NoRequest

\* isDateInRange(date, before, after) is applied.
CallIsDateInRange ==
  /\ pc = "util"
  /\ \E date \in DueCases, before \in BoundCases, after \in BoundCases :
       call' = [fn |-> "isDateInRange", date |-> date, before |-> before,
                after |-> after, out |-> isDateInRange(date.s, before.s, after.s)]
  /\ pc' = "called"
  /\ UNCHANGED <<entry, tz, params, courses, idx, allResults, requests,
                 scopeAnswer, fetched, result, thrown, http>>

\* A date string to parse: whether it is a bare YYYY-MM-DD, whether it
\* names a date that exists, and the day number of that date.
ParseCases ==
  LET ParseCase(s, bare, valid, day) == [s |-> s, bare |-> bare, valid |-> valid, day |-> day]
  IN
  { ParseCase(Null, FALSE, FALSE, 0),
    ParseCase(Str(<<>>), FALSE, FALSE, 0),
    ParseCase(Str(<<"T", "B", "D">>), FALSE, FALSE, 0),
    ParseCase(Str(<<"n", "e", "x", "t", " ", "w", "e", "e", "k">>), FALSE, FALSE, 0),
    ParseCase(Str(<<"2", "0", "2", "4", "-", "0", "6", "-", "0", "1">>), TRUE, TRUE, 19875),
    ParseCase(Str(<<"2", "0", "2", "4", "-", "0", "2", "-", "2", "9">>), TRUE, TRUE, 19782),
    ParseCase(Str(<<"1", "9", "7", "0", "-", "0", "1", "-", "0", "1">>), TRUE, TRUE, 0),
    ParseCase(Str(<<"2", "0", "2", "4", "-", "1", "3", "-", "4", "5">>), TRUE, FALSE, 0),
    ParseCase(Str(<<"2", "0", "2", "4", "-", "0", "2", "-", "3", "0">>), TRUE, FALSE, 0),
    ParseCase(Str(<<"2", "0", "2", "3", "-", "0", "2", "-", "2", "9">>), TRUE, FALSE, 0),
    ParseCase(Str(<<"2", "0", "2", "4", "-", "0", "0", "-", "1", "0">>), TRUE, FALSE, 0),
    ParseCase(Str(<<"2", "0", "2", "4", "-", "0", "6", "-", "0", "0">>), TRUE, FALSE, 0),
    ParseCase(Str(<<"2", "0", "2", "4", "-", "0", "6", "-", "0", "1", "T", "1", "2", ":", "0", "0", ":", "0", "0", "Z">>), FALSE, TRUE, 19875),
    ParseCase(Str(<<"2", "0", "2", "4", "-", "1", "3", "-", "0", "1", "T", "1", "2", ":", "0", "0", ":", "0", "0", "Z">>), FALSE, FALSE, 0) }

\* parseDate(dateStr) is applied.
CallParseDate ==
  /\ pc = "util"
  /\ \E case \in ParseCases :
       call' = [fn |-> "parseDate", arg |-> case, out |-> parseDate(case.s)]
  /\ pc' = "called"
  /\ UNCHANGED <<entry, tz, params, courses, idx, allResults, requests,
                 scopeAnswer, fetched, result, thrown, http>>

\* formatDate(dateStr) is applied.
CallFormatDate ==
  /\ pc = "util"
  /\ \E date \in DueCases :
       call' = [fn |-> "formatDate", date |-> date, out |-> formatDate(date.s)]
  /\ pc' = "called"
  /\ UNCHANGED <<entry, tz, params, courses, idx, allResults, requests,
                 scopeAnswer, fetched, result, thrown, http>>

\* A handler renders a due date for display.
CallDueDateText ==
  /\ pc = "util"
  /\ \E date \in DueCases :
       call' = [fn |-> "dueDateText", date |-> date, out |-> dueDateText(date.s)]
  /\ pc' = "called"
  /\ UNCHANGED <<entry, tz, params, courses, idx, allResults, requests,
                 scopeAnswer, fetched, result, thrown, http>>

\* Markup to render as plain text, with the text wanted of it.
PlainCases ==
  LET PlainCase(s, want) == [s |-> s, want |-> want]
  IN
  { PlainCase(Null, <<>>),
    PlainCase(Str(<<>>), <<>>),
    PlainCase(Str(<<"<", "b", ">", "H", "i", "<", "/", "b", ">", "&", "n", "b", "s", "p", ";", "t", "h", "e", "r", "e">>), <<"H", "i", " ", "t", "h", "e", "r", "e">>),
    PlainCase(Str(<<"a", " ", "&", "a", "m", "p", ";", " ", "b", " ", "&", "l", "t", ";", " ", "c", "&", "q", "u", "o", "t", ";">>), <<"a", " ", "&", " ", "b", " ", "&", "l", "t", ";", " ", "c", "&", "q", "u", "o", "t", ";">>),
    PlainCase(Str(<<"<", "p", " ", "c", "l", "a", "s", "s", "=", "\"", "x", "\"", ">", "1", "<", "/", "p", ">", "\n", "<", "b", "r", "/", ">", "2">>), <<"1", "\n", "2">>),
    PlainCase(Str(<<"x", " ", "<", " ", "y">>), <<"x", " ", "<", " ", "y">>),
    PlainCase(Str(<<"a", "<", ">", "b">>), <<"a", "<", ">", "b">>),
    PlainCase(Str(<<"<", "<", "b", ">", ">">>), <<">">>),
    PlainCase(Str(<<"&", "a", "m", "p", ";", "n", "b", "s", "p", ";", "&", "a", "m", "p", ";", "a", "m", "p", ";">>), <<"&", "n", "b", "s", "p", ";", "&", "a", "m", "p", ";">>),
    PlainCase(Str(<<"&", "n", "b", "<", "i", ">", "s", "p", ";", "x">>), <<" ", "x">>),
    PlainCase(Str(<<"&", "N", "B", "S", "P", ";", "&", "n", "b", "s", "p", " ", "&", "a", "m", "p">>), <<"&", "N", "B", "S", "P", ";", "&", "n", "b", "s", "p", " ", "&", "a", "m", "p">>),
    PlainCase(Str(<<"p", "l", "a", "i", "n", " ", " ", "t", "e", "x", "t", " ">>), <<"p", "l", "a", "i", "n", " ", " ", "t", "e", "x", "t", " ">>) }

\* htmlToPlainText(html) is applied.
CallHtmlToPlainText ==
  /\ pc = "util"
  /\ \E case \in PlainCases :
       call' = [fn |-> "htmlToPlainText", arg |-> case, out |-> htmlToPlainText(case.s)]
  /\ pc' = "called"
  /\ UNCHANGED <<entry, tz, params, courses, idx, allResults, requests,
                 scopeAnswer, fetched, result, thrown, http>>

\* Markup to render as markdown, with the ordered list blocks in it: the
\* texts of the items of each block.
MarkupCases ==
  LET MarkupCase(s, lists) == [s |-> s, lists |-> lists]
  IN
  { MarkupCase(<<"<", "h", "1", ">", "A", "<", "/", "h", "1", ">", "<", "p", ">", "B", "<", "/", "p", ">">>, <<>>),
    MarkupCase(<<"<", "o", "l", ">", "<", "l", "i", ">", "a", "<", "/", "l", "i", ">", "<", "l", "i", ">", "b", "<", "/", "l", "i", ">", "<", "/", "o", "l", ">">>, << <<<<"a">>, <<"b">>>> >>),
    MarkupCase(<<"<", "o", "l", ">", "<", "l", "i", ">", "x", "<", "/", "l", "i", ">", "<", "/", "o", "l", ">", "<", "p", ">", "t", "<", "/", "p", ">", "<", "O", "L", ">", "\n", "<", "l", "i", ">", "y", "<", "/", "l", "i", ">", "<", "l", "i", ">", "z", "<", "/", "l", "i", ">", "<", "/", "O", "L", ">">>,
               << <<<<"x">>>>, <<<<"y">>, <<"z">>>> >>),
    MarkupCase(<<"<", "u", "l", ">", "<", "l", "i", ">", "a", "<", "/", "l", "i", ">", "<", "l", "i", ">", "b", "<", "/", "l", "i", ">", "<", "/", "u", "l", ">">>, <<>>),
    MarkupCase(<<"<", "h", "2", " ", "i", "d", "=", "\"", "t", "\"", ">", "T", "<", "/", "h", "2", ">", "x", "<", "b", "r", ">", "y", "<", "b", "r", " ", "/", ">", "\n", "z">>, <<>>),
    MarkupCase(<<"<", "s", "t", "r", "o", "n", "g", ">", "s", "<", "/", "s", "t", "r", "o", "n", "g", ">", "<", "b", ">", "b", "<", "/", "b", ">", "<", "e", "m", ">", "e", "<", "/", "e", "m", ">", "<", "I", ">", "i", "<", "/", "I", ">", "<", "h", "3", ">", "3", "<", "/", "h", "3", ">">>, <<>>),
    MarkupCase(<<"<", "d", "i", "v", " ", "c", "l", "a", "s", "s", "=", "\"", "c", "\"", ">", "<", "s", "p", "a", "n", ">", "s", "<", "/", "s", "p", "a", "n", ">", "<", "a", " ", "h", "r", "e", "f", "=", "'", "u", "'", ">", "l", "<", "/", "a", ">", "<", "/", "d", "i", "v", ">">>, <<>>),
    MarkupCase(<<"<", "i", ">", "n", "o", "\n", "<", "/", "i", ">", "<", "t", "a", "b", "l", "e", ">", "<", "t", "r", ">", "<", "t", "d", ">", "c", "<", "/", "t", "d", ">", "<", "/", "t", "r", ">", "<", "/", "t", "a", "b", "l", "e", ">">>, <<>>),
    MarkupCase(<<"1", " ", "<", " ", "2", " ", "a", "n", "d", " ", "a", "<", ">", "b", " ", "a", "n", "d", " ", "<", "<", "b", ">", ">">>, <<>>),
    MarkupCase(<<"j", "u", "s", "t", " ", "t", "e", "x", "t">>, <<>>) }

\* convertHtmlToMarkdown(html) is applied.
CallConvertHtmlToMarkdown ==
  /\ pc = "util"
  /\ \E case \in MarkupCases :
       call' = [fn |-> "convertHtmlToMarkdown", arg |-> case,
                out |-> convertHtmlToMarkdown(case.s)]
  /\ pc' = "called"
  /\ UNCHANGED <<entry, tz, params, courses, idx, allResults, requests,
                 scopeAnswer, fetched, result, thrown, http>>

\* The stdio server's get-assignment renders a description as markdown.
CallStdioMarkdown ==
  /\ pc = "util"
  /\ \E case \in MarkupCases :
       call' = [fn |-> "stdioMarkdown", arg |-> case, out |-> stdioMarkdown(case.s)]
  /\ pc' = "called"
  /\ UNCHANGED <<entry, tz, params, courses, idx, allResults, requests,
                 scopeAnswer, fetched, result, thrown, http>>

NextUtil ==
  \/ CallIsDateInRange
  \/ CallParseDate
  \/ CallFormatDate
  \/ CallDueDateText
  \/ CallHtmlToPlainText
  \/ CallConvertHtmlToMarkdown
  \/ CallStdioMarkdown

SpecUtil == InitUtil /\ [][NextUtil]_vars

\* -------------------------------------------------- the worker's requests

\* JSON values a body may hold, beside Null, Num and Str.
Bool(b) == [tag |-> "bool", v |-> b]
JArray == [tag |-> "array"]
JObject(tool, jparams) == [tag |-> "object", tool |-> tool, params |-> jparams]
JParams(cId, aId, formatType) ==
  [tag |-> "object", courseId |-> cId, assignmentId |-> aId, formatType |-> formatType]

\* typeof x
typeof(x) ==
  CASE x.tag \in {"null", "object", "array"} -> "object"
    [] x.tag = "str" -> "string"
    [] x.tag = "num" -> "number"
    [] x.tag = "bool" -> "boolean"
    [] OTHER -> "undefined"

\* body.tool and body.params, undefined of what has no such property.
ToolOf(body) == IF body.tag = "object" THEN body.tool ELSE Undefined
ParamsOf(body) == IF body.tag = "object" THEN body.params ELSE Undefined

\* String.prototype.trim
trim(s) ==
  LET RECURSIVE TrimStart(_)
      TrimStart(t) == IF t # <<>> /\ IsSpace(Head(t)) THEN TrimStart(Tail(t)) ELSE t
      RECURSIVE TrimEnd(_)
      TrimEnd(t) ==
        IF t # <<>> /\ IsSpace(t[Len(t)]) THEN TrimEnd(SubSeq(t, 1, Len(t) - 1)) ELSE t
  IN  TrimEnd(TrimStart(s))

\* The two regular expressions of isValidCanvasDomain, read on the fields
\* of the domain that its dots separate:
\*   /^(localhost|127\.|0\.|::1|\d+\.\d+\.\d+\.\d+)$/ must not match,
\*   /^([a-zA-Z0-9-]+\.)+[a-zA-Z]{2,}$/ must match.
isValidCanvasDomain(domain) ==
  LET RECURSIVE FieldsFrom(_, _)
      FieldsFrom(i, cur) ==
        IF i > Len(domain) THEN <<cur>>
        ELSE IF domain[i] = "." THEN <<cur>> \o FieldsFrom(i + 1, <<>>)
        ELSE FieldsFrom(i + 1, Append(cur, domain[i]))
      fields == FieldsFrom(1, <<>>)
      IsLetter(c) ==
        LowerChar(c) \in
          {"a", "b", "c", "d", "e", "f", "g", "h", "i", "j", "k", "l", "m",
           "n", "o", "p", "q", "r", "s", "t", "u", "v", "w", "x", "y", "z"}
      IsNumber(f) == f # <<>> /\ \A k \in 1..Len(f) : f[k] \in Digits
      IsLabel(f) ==
        f # <<>> /\ \A k \in 1..Len(f) : IsLetter(f[k]) \/ f[k] \in Digits \/ f[k] = "-"
      IsLocalOrAddress ==
        \/ domain \in {<<"l", "o", "c", "a", "l", "h", "o", "s", "t">>, <<"1", "2", "7", ".">>, <<"0", ".">>, <<":", ":", "1">>}
        \/ Len(fields) = 4 /\ \A k \in 1..4 : IsNumber(fields[k])
      IsHostName ==
        /\ Len(fields) >= 2
        /\ \A k \in 1..(Len(fields) - 1) : IsLabel(fields[k])
        /\ Len(fields[Len(fields)]) >= 2
        /\ \A k \in 1..Len(fields[Len(fields)]) : IsLetter(fields[Len(fields)][k])
  IN  domain # <<>> /\ ~IsLocalOrAddress /\ IsHostName

\* toolHandlers[name]: the handler of an own key; what Object.prototype
\* holds under an inherited key (a plain object inherits them); else
\* undefined.
LookUp(name) ==
  IF name \in {<<"l", "i", "s", "t", "_", "c", "o", "u", "r", "s", "e", "s">>, <<"s", "e", "a", "r", "c", "h", "_", "a", "s", "s", "i", "g", "n", "m", "e", "n", "t", "s">>, <<"g", "e", "t", "_", "a", "s", "s", "i", "g", "n", "m", "e", "n", "t">>, <<"a", "s", "s", "i", "g", "n", "m", "e", "n", "t", "_", "c", "o", "n", "t", "e", "n", "t">>}
  THEN "handler"
  ELSE IF name \in {<<"t", "o", "S", "t", "r", "i", "n", "g">>, <<"_", "_", "p", "r", "o", "t", "o", "_", "_">>} THEN "inherited"
  ELSE "undefined"

\* What the worker answers: a plain response, or the event stream that
\* carries a result.
Response(code, text) ==
  [status |-> "response", code |-> code, isError |-> FALSE, items |-> <<>>, text |-> text]
Stream(isError, text) ==
  [status |-> "stream", code |-> 200, isError |-> isError, items |-> <<>>, text |-> text]

\* mcpManifest, as the names of its tools and resources: the descriptions
\* and parameters of each are left out.
mcpManifest ==
  [tools |-> <<<<"l", "i", "s", "t", "_", "c", "o", "u", "r", "s", "e", "s">>, <<"s", "e", "a", "r", "c", "h", "_", "a", "s", "s", "i", "g", "n", "m", "e", "n", "t", "s">>, <<"g", "e", "t", "_", "a", "s", "s", "i", "g", "n", "m", "e", "n", "t">>>>,
   resources |-> <<<<"a", "s", "s", "i", "g", "n", "m", "e", "n", "t", "_", "c", "o", "n", "t", "e", "n", "t">>>>]

\* JSON.stringify(mcpManifest), of the names.
manifestText ==
  LET RECURSIVE entries(_)
      entries(names) ==
        IF names = <<>> THEN <<>>
        ELSE <<"{", "\"", "n", "a", "m", "e", "\"", ":", "\"">> \o names[1] \o <<"\"", "}">>
               \o (IF Len(names) > 1 THEN <<",">> ELSE <<>>) \o entries(Tail(names))
  IN  <<"{", "\"", "t", "o", "o", "l", "s", "\"", ":", "[">> \o entries(mcpManifest.tools)
        \o <<"]", ",", "\"", "r", "e", "s", "o", "u", "r", "c", "e", "s", "\"", ":", "[">> \o entries(mcpManifest.resources) \o <<"]", "}">>

\* The first check of fetch that the request fails, as its response; NoResult
\* when it passes them all.  The token is the bearer of the Authorization
\* header, else the token parameter of the URL; the domain is the
\* canvas_domain parameter, else the X-Canvas-Domain header, else ''.
Rejected(request) ==
  LET token ==
        IF /\ Truthy(request.authorization)
           /\ StartsWithAt(request.authorization.v, 1, <<"B", "e", "a", "r", "e", "r", " ">>)
        THEN Str(trim(SubSeq(request.authorization.v, 8, Len(request.authorization.v))))
        ELSE request.token
      domain ==
        IF Truthy(request.canvas_domain) THEN request.canvas_domain.v
        ELSE IF Truthy(request.xCanvasDomain) THEN request.xCanvasDomain.v
        ELSE <<>>
      tool == ToolOf(request.body)
      jparams == ParamsOf(request.body)
  IN  IF ~Truthy(token)
      THEN Response(401, <<"M", "i", "s", "s", "i", "n", "g", " ", "C", "a", "n", "v", "a", "s", " ", "A", "P", "I", " ", "t", "o", "k", "e", "n", " ", "(", "p", "r", "o", "v", "i", "d", "e", " ", "a", "s", " ", "A", "u", "t", "h", "o", "r", "i", "z", "a", "t", "i", "o", "n", " ", "h", "e", "a", "d", "e", "r", " ", "o", "r", " ", "?", "t", "o", "k", "e", "n", "=", " ", "q", "u", "e", "r", "y", " ", "p", "a", "r", "a", "m", ")">>)
      ELSE IF ~isValidCanvasDomain(domain)
      THEN Response(400, <<"M", "i", "s", "s", "i", "n", "g", " ", "o", "r", " ", "i", "n", "v", "a", "l", "i", "d", " ", "C", "a", "n", "v", "a", "s", " ", "d", "o", "m", "a", "i", "n">>)
      ELSE IF request.path = "/manifest" THEN Response(200, manifestText)
      ELSE IF request.path # "/sse" \/ request.method # "POST"
      THEN Response(404, <<"N", "o", "t", " ", "f", "o", "u", "n", "d">>)
      ELSE IF \/ ~Truthy(request.body) \/ typeof(request.body) # "object"
              \/ ~Truthy(tool) \/ typeof(tool) # "string"
      THEN Response(400, <<"I", "n", "v", "a", "l", "i", "d", " ", "r", "e", "q", "u", "e", "s", "t", ":", " ", "m", "u", "s", "t", " ", "i", "n", "c", "l", "u", "d", "e", " ", "t", "o", "o", "l", " ", "a", "n", "d", " ", "p", "a", "r", "a", "m", "s">>)
      ELSE IF LookUp(tool.v) = "undefined" THEN Response(400, <<"U", "n", "k", "n", "o", "w", "n", " ", "t", "o", "o", "l", "/", "r", "e", "s", "o", "u", "r", "c", "e">>)
      ELSE IF tool.v \notin {<<"g", "e", "t", "_", "a", "s", "s", "i", "g", "n", "m", "e", "n", "t">>, <<"a", "s", "s", "i", "g", "n", "m", "e", "n", "t", "_", "c", "o", "n", "t", "e", "n", "t">>} THEN NoResult
      ELSE IF ~Truthy(jparams) \/ typeof(jparams.courseId) \notin {"number", "string"}
      THEN Response(400, <<"M", "i", "s", "s", "i", "n", "g", " ", "o", "r", " ", "i", "n", "v", "a", "l", "i", "d", " ", "c", "o", "u", "r", "s", "e", "I", "d">>)
      ELSE IF typeof(jparams.assignmentId) \notin {"number", "string"}
      THEN Response(400, <<"M", "i", "s", "s", "i", "n", "g", " ", "o", "r", " ", "i", "n", "v", "a", "l", "i", "d", " ", "a", "s", "s", "i", "g", "n", "m", "e", "n", "t", "I", "d">>)
      ELSE NoResult

\* `/courses/${courseId}/assignments/${assignmentId}`
DetailRequest(jparams) ==
  [kind |-> "assignment", course |-> jparams.courseId, state |-> "-", bucket |-> "-",
   assignment |-> jparams.assignmentId]

FormatTypes == { Undefined, Str(<<"f", "u", "l", "l">>), Str(<<"p", "l", "a", "i", "n">>), Str(<<"m", "a", "r", "k", "d", "o", "w", "n">>), Str(<<"h", "t", "m", "l">>) }

\* The requests tried: a request is made of a way to give the token, a way
\* to give the domain, a route and a body, and ok says whether it is
\* well-formed.
Requests ==
  LET AuthCase(authorization, token, ok) ==
        [authorization |-> authorization, token |-> token, ok |-> ok]
      AuthCases ==
        { AuthCase(Null, Null, FALSE),
          AuthCase(Str(<<"B", "e", "a", "r", "e", "r", " ", "t", "1">>), Null, TRUE),
          AuthCase(Null, Str(<<"t", "2">>), TRUE),
          AuthCase(Str(<<"B", "a", "s", "i", "c", " ", "x">>), Str(<<"t", "2">>), TRUE),
          AuthCase(Str(<<"B", "a", "s", "i", "c", " ", "x">>), Null, FALSE),
          AuthCase(Str(<<"B", "e", "a", "r", "e", "r", " ", " ">>), Null, FALSE) }
      DomainCase(canvas_domain, xCanvasDomain, ok) ==
        [canvas_domain |-> canvas_domain, xCanvasDomain |-> xCanvasDomain, ok |-> ok]
      DomainCases ==
        { DomainCase(Null, Null, FALSE),
          DomainCase(Str(<<>>), Null, FALSE),
          DomainCase(Str(<<"l", "o", "c", "a", "l", "h", "o", "s", "t">>), Null, FALSE),
          DomainCase(Str(<<"1", "0", ".", "0", ".", "0", ".", "1">>), Null, FALSE),
          DomainCase(Str(<<"1", "2", "7", ".", "0", ".", "0", ".", "1">>), Null, FALSE),
          DomainCase(Null, Str(<<":", ":", "1">>), FALSE),
          DomainCase(Str(<<"c", "a", "n", "v", "a", "s">>), Null, FALSE),
          DomainCase(Str(<<"e", "x", " ", "a", "m", "p", "l", "e", ".", "c", "o", "m">>), Null, FALSE),
          DomainCase(Str(<<"c", "a", "n", "v", "a", "s", ".", "e", "x", "a", "m", "p", "l", "e", ".", "e", "d", "u">>), Null, TRUE),
          DomainCase(Null, Str(<<"m", "y", "-", "s", "c", "h", "o", "o", "l", ".", "i", "n", "s", "t", "r", "u", "c", "t", "u", "r", "e", ".", "c", "o", "m">>), TRUE),
          DomainCase(Str(<<>>), Str(<<"c", "a", "n", "v", "a", "s", ".", "e", "x", "a", "m", "p", "l", "e", ".", "e", "d", "u">>), TRUE) }
      RouteCase(path, method, ok) == [path |-> path, method |-> method, ok |-> ok]
      RouteCases ==
        { RouteCase("/sse", "POST", TRUE),
          RouteCase("/sse", "GET", FALSE),
          RouteCase("/other", "POST", FALSE),
          RouteCase("/manifest", "GET", TRUE),
          RouteCase("/manifest", "POST", TRUE) }
      BodyCase(body, ok) == [body |-> body, ok |-> ok]
      BodyCases ==
        { BodyCase(Null, FALSE),
          BodyCase(Num(5), FALSE),
          BodyCase(Str(<<"g", "e", "t", "_", "a", "s", "s", "i", "g", "n", "m", "e", "n", "t">>), FALSE),
          BodyCase(JArray, FALSE),
          BodyCase(JObject(Undefined, Undefined), FALSE),
          BodyCase(JObject(Num(1), Undefined), FALSE),
          BodyCase(JObject(Str(<<>>), Undefined), FALSE),
          BodyCase(JObject(Str(<<"n", "o", "p", "e">>), Undefined), FALSE),
          BodyCase(JObject(Str(<<"g", "e", "t", "-", "a", "s", "s", "i", "g", "n", "m", "e", "n", "t">>), JParams(Num(7), Num(3), Undefined)), FALSE),
          BodyCase(JObject(Str(<<"t", "o", "S", "t", "r", "i", "n", "g">>), Undefined), FALSE),
          BodyCase(JObject(Str(<<"_", "_", "p", "r", "o", "t", "o", "_", "_">>), Undefined), FALSE),
          BodyCase(JObject(Str(<<"l", "i", "s", "t", "_", "c", "o", "u", "r", "s", "e", "s">>), JParams(Undefined, Undefined, Undefined)), TRUE),
          BodyCase(JObject(Str(<<"s", "e", "a", "r", "c", "h", "_", "a", "s", "s", "i", "g", "n", "m", "e", "n", "t", "s">>), JParams(Undefined, Undefined, Undefined)), TRUE),
          BodyCase(JObject(Str(<<"g", "e", "t", "_", "a", "s", "s", "i", "g", "n", "m", "e", "n", "t">>), Undefined), FALSE),
          BodyCase(JObject(Str(<<"g", "e", "t", "_", "a", "s", "s", "i", "g", "n", "m", "e", "n", "t">>), JParams(Undefined, Num(3), Undefined)), FALSE),
          BodyCase(JObject(Str(<<"g", "e", "t", "_", "a", "s", "s", "i", "g", "n", "m", "e", "n", "t">>), JParams(Null, Num(3), Undefined)), FALSE),
          BodyCase(JObject(Str(<<"g", "e", "t", "_", "a", "s", "s", "i", "g", "n", "m", "e", "n", "t">>), JParams(Num(7), Bool(TRUE), Undefined)), FALSE),
          BodyCase(JObject(Str(<<"g", "e", "t", "_", "a", "s", "s", "i", "g", "n", "m", "e", "n", "t">>), JParams(Str(<<"7">>), Undefined, Undefined)), FALSE),
          BodyCase(JObject(Str(<<"g", "e", "t", "_", "a", "s", "s", "i", "g", "n", "m", "e", "n", "t">>), JParams(Str(<<"7">>), Str(<<"3">>), Undefined)), TRUE),
          BodyCase(JObject(Str(<<"a", "s", "s", "i", "g", "n", "m", "e", "n", "t", "_", "c", "o", "n", "t", "e", "n", "t">>), Undefined), FALSE),
          BodyCase(JObject(Str(<<"a", "s", "s", "i", "g", "n", "m", "e", "n", "t", "_", "c", "o", "n", "t", "e", "n", "t">>), JParams(JArray, Num(3), Undefined)), FALSE),
          BodyCase(JObject(Str(<<"a", "s", "s", "i", "g", "n", "m", "e", "n", "t", "_", "c", "o", "n", "t", "e", "n", "t">>), JParams(Num(7), Null, Undefined)), FALSE),
          BodyCase(JObject(Str(<<"a", "s", "s", "i", "g", "n", "m", "e", "n", "t", "_", "c", "o", "n", "t", "e", "n", "t">>), JParams(Num(7), Num(3), Undefined)), TRUE) }
        \cup { BodyCase(JObject(Str(<<"g", "e", "t", "_", "a", "s", "s", "i", "g", "n", "m", "e", "n", "t">>), JParams(Num(7), Num(3), f)), TRUE) :
                 f \in FormatTypes }
  IN  { [method |-> route.method, path |-> route.path,
         authorization |-> auth.authorization, token |-> auth.token,
         canvas_domain |-> domain.canvas_domain, xCanvasDomain |-> domain.xCanvasDomain,
         body |-> body.body,
         ok |-> auth.ok /\ domain.ok /\ route.ok /\ (body.ok \/ route.path = "/manifest")] :
        auth \in AuthCases, domain \in DomainCases, route \in RouteCases, body \in BodyCases }

\* The assignments the remote may deliver for a detail request.
DetailPool ==
  LET Detail(name, html, due_at, points_possible, submission_types) ==
        [id |-> 3, name |-> name, description |-> html, due_at |-> due_at,
         points_possible |-> points_possible, submission_types |-> submission_types]
  IN  { Detail(Str(<<"E", "s", "s", "a", "y">>), Str(<<"<", "h", "1", ">", "A", "<", "/", "h", "1", ">", "<", "p", ">", "B", "<", "/", "p", ">">>), Str(<<"2", "0", "2", "4", "-", "0", "6", "-", "0", "2", "T", "1", "2", ":", "0", "0", ":", "0", "0", "Z">>),
               Num(10), <<<<"o", "n", "l", "i", "n", "e", "_", "u", "p", "l", "o", "a", "d">>, <<"o", "n", "l", "i", "n", "e", "_", "t", "e", "x", "t", "_", "e", "n", "t", "r", "y">>>>),
        Detail(Str(<<"Q", "u", "i", "z">>), Null, Null, Null, <<>>),
        Detail(Str(<<"L", "a", "b">>), Str(<<>>), Str(<<"T", "B", "D">>), Num(0), <<<<"n", "o", "n", "e">>>>),
        Detail(Str(<<"B", "l", "a", "n", "k">>), Str(<<"<", "p", ">", "<", "/", "p", ">">>), Null, Num(5), <<<<"o", "n", "_", "p", "a", "p", "e", "r">>>>),
        Detail(Str(<<"N", "o", "t", "e", "s">>), Str(<<"<", "b", ">", "H", "i", "<", "/", "b", ">", "&", "n", "b", "s", "p", ";", "t", "h", "e", "r", "e", " ", "&", "a", "m", "p", ";", " ", "<", "i", ">", "x", "<", "/", "i", ">">>), Null, Num(5),
               <<<<"o", "n", "_", "p", "a", "p", "e", "r">>>>) }

NoDescription == <<"N", "o", " ", "d", "e", "s", "c", "r", "i", "p", "t", "i", "o", "n", " ", "a", "v", "a", "i", "l", "a", "b", "l", "e">>

\* getAssignmentHandler's description with formatType 'plain' read as
\* 'full'.
description_PlainAsFull(assignment, formatType) ==
  IF formatType \in {Str(<<"f", "u", "l", "l">>), Str(<<"p", "l", "a", "i", "n">>)}
  THEN (IF Truthy(assignment.description) THEN assignment.description.v ELSE NoDescription)
  ELSE IF Truthy(assignment.description)
       THEN convertHtmlToMarkdown(assignment.description.v)
       ELSE NoDescription

\* getAssignmentHandler's description, by formatType.
description(assignment, formatType) ==
  IF formatType = Str(<<"f", "u", "l", "l">>)
  THEN (IF Truthy(assignment.description) THEN assignment.description.v ELSE NoDescription)
  ELSE IF formatType = Str(<<"p", "l", "a", "i", "n">>)
       THEN (IF htmlToPlainText(assignment.description) # <<>>
             THEN htmlToPlainText(assignment.description)
             ELSE NoDescription)
  ELSE IF Truthy(assignment.description)
       THEN convertHtmlToMarkdown(assignment.description.v)
       ELSE NoDescription

\* The lines both handlers give after the assignment's identity.
commonLines(assignment) ==
  LET RECURSIVE join(_)
      join(strings) ==
        IF strings = <<>> THEN <<>>
        ELSE IF Len(strings) = 1 THEN strings[1]
        ELSE strings[1] \o <<",", " ">> \o join(Tail(strings))
  IN  <<"*", "*", "D", "u", "e", " ", "D", "a", "t", "e", ":", "*", "*", " ">> \o dueDateText(assignment.due_at)
        \o <<"\n", "*", "*", "P", "o", "i", "n", "t", "s", " ", "P", "o", "s", "s", "i", "b", "l", "e", ":", "*", "*", " ">> \o Interpolate(assignment.points_possible)
        \o <<"\n", "*", "*", "S", "u", "b", "m", "i", "s", "s", "i", "o", "n", " ", "T", "y", "p", "e", ":", "*", "*", " ">>
        \o (IF join(assignment.submission_types) # <<>>
            THEN join(assignment.submission_types) ELSE <<"N", "o", "t", " ", "s", "p", "e", "c", "i", "f", "i", "e", "d">>)
        \o <<"\n", "\n", "#", "#", " ", "D", "e", "s", "c", "r", "i", "p", "t", "i", "o", "n", "\n", "\n">>

\* getAssignmentHandler's text.
details(assignment, jparams) ==
  <<"#", " ">> \o Interpolate(assignment.name)
    \o <<"\n", "\n", "*", "*", "C", "o", "u", "r", "s", "e", " ", "I", "D", ":", "*", "*", " ">> \o Interpolate(jparams.courseId)
    \o <<"\n", "*", "*", "A", "s", "s", "i", "g", "n", "m", "e", "n", "t", " ", "I", "D", ":", "*", "*", " ">> \o NumberToString(assignment.id) \o <<"\n">>
    \o commonLines(assignment)
    \o description(assignment, jparams.formatType)

\* assignmentContentHandler's text.
assignmentContent(assignment) ==
  <<"#", " ">> \o Interpolate(assignment.name) \o <<"\n", "\n">> \o commonLines(assignment)
    \o (IF Truthy(assignment.description) THEN assignment.description.v ELSE NoDescription)

InitTools ==
  /\ entry = "worker"
  /\ tz = ServerOffset
  /\ pc = "request"
  /\ query = <<>> /\ dueBefore = Undefined /\ dueAfter = Undefined
  /\ includeCompleted = FALSE /\ courseId = Undefined
  /\ courses = <<>> /\ idx = 0 /\ allResults = <<>>
  /\ requests = <<>> /\ scopeAnswer = "none" /\ fetched = <<>>
  /\ result = NoResult
  /\ call = NoCall
  /\ thrown = NoError /\ http = NoRequest

\* The worker's fetch, up to the handler's first remote request.  A request
\* that passed the checks has the member found under its tool's name
\* called: an inherited toString returns "[object Undefined]", an inherited
\* __proto__ is no function and the call throws into the catch; a detail
\* handler asks for its assignment; the two other handlers start as
\* listCoursesHandler and searchAssignmentsHandler do.
Fetch ==
  /\ pc = "request"
  /\ \E request \in Requests :
       /\ http' = request
       /\ IF Rejected(request) # NoResult
          THEN /\ result' = Rejected(request)
               /\ pc' = "done"
               /\ UNCHANGED requests
          ELSE IF LookUp(request.body.tool.v) = "inherited"
          THEN /\ result' = IF request.body.tool.v = <<"t", "o", "S", "t", "r", "i", "n", "g">>
                            THEN Stream(FALSE, <<"\"", "[", "o", "b", "j", "e", "c", "t", " ", "U", "n", "d", "e", "f", "i", "n", "e", "d", "]", "\"">>)
                            ELSE Stream(TRUE, GenericFailure)
               /\ pc' = "done"
               /\ UNCHANGED requests
          ELSE IF request.body.tool.v \in {<<"g", "e", "t", "_", "a", "s", "s", "i", "g", "n", "m", "e", "n", "t">>, <<"a", "s", "s", "i", "g", "n", "m", "e", "n", "t", "_", "c", "o", "n", "t", "e", "n", "t">>}
          THEN /\ requests' = <<DetailRequest(request.body.params)>>
               /\ pc' = "detail"
               /\ UNCHANGED result
          ELSE /\ pc' = "handler"
               /\ UNCHANGED <<requests, result>>
  /\ UNCHANGED <<entry, tz, params, courses, idx, allResults, scopeAnswer, fetched,
                 call, thrown>>

\* The assignment arrives: the handler returns its text.
DetailFetched ==
  /\ pc = "detail"
  /\ \E assignment \in DetailPool :
       /\ fetched' = <<[course |-> http.body.params.courseId, ok |-> TRUE, page |-> <<assignment>>]>>
       /\ result' = Stream(FALSE,
                           IF http.body.tool = Str(<<"g", "e", "t", "_", "a", "s", "s", "i", "g", "n", "m", "e", "n", "t">>)
                           THEN details(assignment, http.body.params)
                           ELSE assignmentContent(assignment))
  /\ pc' = "done"
  /\ UNCHANGED <<entry, tz, params, courses, idx, allResults, requests, scopeAnswer,
                 call, thrown, http>>

\* DetailFails with the failure answered by a text built of the request.
DetailFails_Presents ==
  /\ pc = "detail"
  /\ thrown' \in RemoteErrors
  /\ fetched' = <<[course |-> http.body.params.courseId, ok |-> FALSE, page |-> <<>>]>>
  /\ result' = Stream(FALSE, <<"#", " ", "u", "n", "d", "e", "f", "i", "n", "e", "d", "\n", "\n", "#", "#", " ", "D", "e", "s", "c", "r", "i", "p", "t", "i", "o", "n", "\n", "\n">> \o NoDescription)
  /\ pc' = "done"
  /\ UNCHANGED <<entry, tz, params, courses, idx, allResults, requests, scopeAnswer,
                 call, http>>

\* The detail request fails: the handler throws and the worker's catch
\* answers with its fixed text.
DetailFails ==
  /\ pc = "detail"
  /\ thrown' \in RemoteErrors
  /\ fetched' = <<[course |-> http.body.params.courseId, ok |-> FALSE, page |-> <<>>]>>
  /\ result' = Stream(TRUE, GenericFailure)
  /\ pc' = "done"
  /\ UNCHANGED <<entry, tz, params, courses, idx, allResults, requests, scopeAnswer,
                 call, http>>

NextTools == Fetch \/ DetailFetched \/ DetailFails

SpecTools == InitTools /\ [][NextTools]_vars

\* ------------------------------------------------------------- the claims

InSeq(x, s) == \E n \in 1..Len(s) : s[n] = x

AllIn(xs, s) == \A m \in 1..Len(xs) : InSeq(xs[m], s)

\* The search went through its loop and returned.
SearchDone == pc = "done" /\ scopeAnswer = "ok" /\ Len(courses) >= 1

\* C1: a course whose fetch or filtering fails is skipped and never aborts
\* the search: once the scope holds a course, the search requests every
\* course of the scope in order whatever failed before, ends with a result
\* that is no error, and that result holds every match of every course whose
\* page arrived.
C1_FailureIsolation ==
  /\ pc = "assignments" => ~result.isError /\ Len(fetched) = idx - 1
  /\ SearchDone =>
       /\ ~result.isError
       /\ result.status \in {"found", "noAssignments"}
       /\ Len(fetched) = Len(courses)
       /\ Len(requests) = 1 + Len(courses)
       /\ \A k \in 1..Len(courses) :
            /\ fetched[k].course = courses[k]
            /\ requests[k + 1] = AssignmentsRequest(courses[k])
            /\ fetched[k].ok =>
                 AllIn(courseMatches(courses[k], fetched[k].page), result.items)

\* C1's case: the first course's fetch failed, the second course's page
\* arrived, and its matches are returned.
C1_Witness ==
  /\ SearchDone /\ Len(courses) = 2
  /\ ~fetched[1].ok /\ fetched[2].ok
  /\ result.status = "found"
  /\ result.items[1].courseId = courses[2].id

\* C2: a failure of the scope request (the course lookup or the listing) is
\* fatal: the call ends with an error result that holds no items, and no
\* assignment request was issued.
C2_ScopeFailureFatal ==
  scopeAnswer = "failed" =>
    /\ pc = "done"
    /\ result.isError /\ result.status = "failed" /\ result.items = <<>>
    /\ Len(requests) = 1 /\ requests[1].kind # "assignments"
    /\ fetched = <<>> /\ allResults = <<>>

\* C2's case: the lookup of the single course failed.
C2_Witness == scopeAnswer = "failed" /\ Truthy(courseId) /\ requests[1].kind = "course"

\* C3: with courseId present the scope is that one course (no listing is
\* requested, whatever includeCompleted is); with courseId absent the
\* listing is requested with state all or active by includeCompleted.
C3_ScopeByCourseId ==
  Len(requests) >= 1 =>
    IF courseId # Undefined
    THEN /\ requests[1] = CourseRequest(courseId)
         /\ \A i \in 1..Len(requests) : requests[i].kind # "courses"
         /\ \A i \in 2..Len(requests) : requests[i].course = courseId
    ELSE requests[1] = ListingRequest(IF includeCompleted THEN "all" ELSE "active")

\* C4: an empty scope ends the search at once with the "No courses found."
\* result, which is no error, and no assignment request is issued.
C4_EmptyScope ==
  /\ scopeAnswer = "ok" /\ courses = <<>> =>
       /\ pc = "done"
       /\ result = NoCourses /\ ~result.isError
       /\ \A i \in 1..Len(requests) : requests[i].kind # "assignments"
       /\ fetched = <<>>
  /\ result.status = "noCourses" => scopeAnswer = "ok" /\ courses = <<>>

\* C4's case: the listing came back empty.
C4_Witness == scopeAnswer = "ok" /\ courses = <<>> /\ result.status = "noCourses"

\* The pages that arrived and whose filtering did not throw: the filter
\* reads the name of every assignment whenever it runs.
Delivered(k) ==
  /\ fetched[k].ok
  /\ (entry = "stdio" \/ Len(filterNonEmpty(splitWhitespace(toLowerCase(query)))) > 0) =>
       \A i \in 1..Len(fetched[k].page) : fetched[k].page[i].name.tag = "str"

\* The matches of courses 1..k before the sort, in merge order.
RECURSIVE Merged(_)
Merged(k) ==
  IF k = 0 THEN <<>>
  ELSE Merged(k - 1)
         \o (IF fetched[k].ok THEN courseMatches(courses[k], fetched[k].page) ELSE <<>>)

\* The assignments of the delivered pages of courses 1..k, counted.
RECURSIVE DeliveredCount(_)
DeliveredCount(k) ==
  IF k = 0 THEN 0
  ELSE DeliveredCount(k - 1) + (IF Delivered(k) THEN Len(fetched[k].page) ELSE 0)

\* The lowercase, non-empty, whitespace-delimited terms of the query.
QueryTerms == filterNonEmpty(splitWhitespace(toLowerCase(query)))

\* Whether a term of the query is in the lowercased title or the lowercased
\* plain text of the description.
HasQueryTerm(item) ==
  \E k \in 1..Len(QueryTerms) :
    \/ item.name.tag = "str" /\ includes(toLowerCase(item.name.v), QueryTerms[k])
    \/ includes(toLowerCase(plainText(item.description)), QueryTerms[k])

\* C5: with a non-empty query (one of white space only and one with white
\* space at an end included), every returned assignment has a non-empty
\* lowercase term of the query in its lowercased title or in the lowercased
\* plain text of its description.
C5_QueryTermInText ==
  pc = "done" /\ Len(query) > 0 =>
    \A n \in 1..Len(result.items) : HasQueryTerm(result.items[n])

\* C6: with an empty query and neither bound, every assignment of every page
\* that arrived is returned, tagged with its course, and nothing else is: no
\* assignment is removed by the text filter or by the date filter.
C6_EmptyQueryReturnsAll ==
  SearchDone /\ query = <<>> /\ dueBefore = Undefined /\ dueAfter = Undefined =>
    /\ Len(result.items) = DeliveredCount(Len(courses))
    /\ \A k \in 1..Len(courses) :
         Delivered(k) =>
           \A i \in 1..Len(fetched[k].page) :
             InSeq(AssignmentMatch(fetched[k].page[i], courses[k]), result.items)

\* C6's case: mcpCore.ts returned an assignment with a null description and
\* one with a null due date, from two courses.
C6_Witness ==
  /\ SearchDone /\ entry = "worker" /\ Len(courses) = 2
  /\ query = <<>> /\ dueBefore = Undefined /\ dueAfter = Undefined
  /\ result.status = "found" /\ Len(result.items) = 2 * MaxAssignments
  /\ \E n \in 1..Len(result.items) : result.items[n].description = Null
  /\ \E n \in 1..Len(result.items) : result.items[n].due_at = Null

NoDueDate(item) == ~Truthy(item.due_at)

DueInstant(item) == DateParse(item.due_at.v)

\* C7: the returned sequence has every assignment with a due instant before
\* every assignment without a due date, the assignments with a due instant
\* in ascending order of it, and the assignments without a due date in their
\* merge order.
C7_Sorted ==
  SearchDone =>
    /\ \A i, j \in 1..Len(result.items) :
         i < j /\ ~NoDueDate(result.items[j]) /\ DueInstant(result.items[j]).ok =>
           /\ ~NoDueDate(result.items[i])
           /\ DueInstant(result.items[i]).ok =>
                TimeDiff(DueInstant(result.items[i]), DueInstant(result.items[j])) <= 0
    /\ SelectSeq(result.items, NoDueDate) = SelectSeq(Merged(Len(courses)), NoDueDate)

C9_NoDueDateAlwaysInRange ==
  /\ \A a \in AssignmentPool :
       ~Truthy(a.due_at) => isDateInRange(a.due_at, dueBefore, dueAfter)
  /\ isDateInRange(Undefined, dueBefore, dueAfter)
  /\ SearchDone /\ entry = "worker" =>
       \A k \in 1..Len(courses) :
         Delivered(k) =>
           \A i \in 1..Len(fetched[k].page) :
             /\ ~Truthy(fetched[k].page[i].due_at)
             /\ Len(QueryTerms) > 0 => HasQueryTerm(fetched[k].page[i])
             => InSeq(AssignmentMatch(fetched[k].page[i], courses[k]), result.items)

\* C9's case: the bounds contradict each other (after is later than before)
\* and mcpCore.ts returns an assignment whose due date is null.
C9_Witness ==
  /\ SearchDone /\ entry = "worker"
  /\ dueBefore = Str(<<"2", "0", "2", "4", "-", "0", "6", "-", "0", "1">>) /\ dueAfter = Str(<<"2", "0", "2", "4", "-", "0", "6", "-", "0", "2">>)
  /\ \E n \in 1..Len(result.items) : result.items[n].due_at = Null

\* 00:00:00.000 and 23:59:59.999 of a calendar day of the local zone.
LocalDayStart(day) == Norm(day, -(tz * 60000))
LocalDayEnd(day) == Norm(day + 1, -(tz * 60000) - 1)

\* C10: of a present, parsable due date isDateInRange holds exactly when the
\* due instant is at most 23:59:59.999 of the before day (that bound present
\* and parsable) and at least 00:00:00.000 of the after day (that bound
\* present and parsable); a bound that is absent or unparsable constrains
\* nothing.
C10_InclusiveDayBounds ==
  call.fn = "isDateInRange" /\ call.date.has =>
    call.out =
      (/\ call.before.has =>
            TimeDiff(call.date.at[tz], LocalDayEnd(call.before.day[tz])) <= 0
       /\ call.after.has =>
            TimeDiff(call.date.at[tz], LocalDayStart(call.after.day[tz])) >= 0)

\* C10's case: both bounds name one day, the due instant is the last
\* millisecond of that day, and isDateInRange holds.
C10_Witness ==
  /\ call.fn = "isDateInRange" /\ call.date.has
  /\ call.before.has /\ call.after.has /\ call.out
  /\ TimeDiff(call.date.at[tz], LocalDayEnd(call.before.day[tz])) = 0
  /\ call.before.day[tz] = call.after.day[tz]

\* C11: when the scope holds a course and nothing survives in any course
\* (every fetch failing included), mcpCore.ts answers with a result that is
\* no error, whose text starts "No assignments found", quotes the query
\* when it is non-empty and names "after <dueAfter>" and "before
\* <dueBefore>" for each bound given; a "Found" answer lists at least one
\* assignment.
C11_NoResultsMessage ==
  /\ SearchDone /\ allResults = <<>> /\ entry = "worker" =>
       /\ result.status = "noAssignments" /\ ~result.isError
       /\ StartsWithAt(resultText, 1, <<"N", "o", " ", "a", "s", "s", "i", "g", "n", "m", "e", "n", "t", "s", " ", "f", "o", "u", "n", "d">>)
       /\ ~includes(resultText, <<"F", "o", "u", "n", "d", " ", "0">>)
       /\ query # <<>> => includes(resultText, <<"m", "a", "t", "c", "h", "i", "n", "g", " ", "\"">> \o query \o <<"\"">>)
       /\ dueAfter # Undefined => includes(resultText, <<"a", "f", "t", "e", "r", " ">> \o dueAfter.v)
       /\ dueBefore # Undefined => includes(resultText, <<"b", "e", "f", "o", "r", "e", " ">> \o dueBefore.v)
  /\ result.status = "found" =>
       /\ Len(result.items) >= 1
       /\ ~StartsWithAt(resultText, 1, <<"F", "o", "u", "n", "d", " ", "0">>)

\* C11's case: every course's fetch failed, the query is non-empty and both
\* bounds are given.
C11_Witness ==
  /\ SearchDone /\ entry = "worker" /\ Len(courses) = 2
  /\ \A k \in 1..Len(courses) : ~fetched[k].ok
  /\ query = <<"H", "w", " ">> /\ Truthy(dueBefore) /\ Truthy(dueAfter)
  /\ resultText = <<"N", "o", " ", "a", "s", "s", "i", "g", "n", "m", "e", "n", "t", "s", " ", "f", "o", "u", "n", "d", " ", "m", "a", "t", "c", "h", "i", "n", "g", " ", "\"", "H", "w", " ", "\"", " ", "d", "u", "e", " ", "a", "f", "t", "e", "r", " ">>
                    \o dueAfter.v \o <<" ", "a", "n", "d", " ", "b", "e", "f", "o", "r", "e", " ">> \o dueBefore.v \o <<".">>

\* C12: the text of a failed search does not depend on the remote error: it
\* is the text any other remote error would have given, and the error's
\* body is not in it.
C12_FailureTextIndependent ==
  result.isError =>
    /\ \A error \in RemoteErrors : resultText = searchFailureText(error)
    /\ ~includes(resultText, thrown.body)

\* The request served is one for an assignment's details or content.
DetailCall ==
  ToolOf(http.body) \in {Str(<<"g", "e", "t", "_", "a", "s", "s", "i", "g", "n", "m", "e", "n", "t">>), Str(<<"a", "s", "s", "i", "g", "n", "m", "e", "n", "t", "_", "c", "o", "n", "t", "e", "n", "t">>)}

\* C13: a request that is not well-formed is answered with a 4xx response,
\* no handler runs for it and no request to the remote is made.
C13_ValidationRejects ==
  pc # "request" /\ ~http.ok =>
    /\ pc = "done"
    /\ result.status = "response" /\ result.code \in 400..499
    /\ requests = <<>> /\ fetched = <<>>

\* The description shown in a details text: what follows its heading.
DescriptionHeading == <<"#", "#", " ", "D", "e", "s", "c", "r", "i", "p", "t", "i", "o", "n", "\n", "\n">>
ShownFrom(text) ==
  First({i \in 1..Len(text) : StartsWithAt(text, i, DescriptionHeading)})
    + Len(DescriptionHeading)
ShownDescription(text) == SubSeq(text, ShownFrom(text), Len(text))

\* The details of an assignment were fetched and returned.
DetailsReturned ==
  /\ pc = "done" /\ ToolOf(http.body) = Str(<<"g", "e", "t", "_", "a", "s", "s", "i", "g", "n", "m", "e", "n", "t">>)
  /\ fetched # <<>> /\ fetched[1].ok

\* The description by the mode asked for: raw, plain text or markdown.
Rendered(d, formatType) ==
  IF formatType = Str(<<"f", "u", "l", "l">>) THEN d.v
  ELSE IF formatType = Str(<<"p", "l", "a", "i", "n">>)
       THEN (IF htmlToPlainText(d) = <<>> THEN NoDescription ELSE htmlToPlainText(d))
  ELSE convertHtmlToMarkdown(d.v)

\* C14: the details show the description raw with formatType 'full', as
\* plain text with 'plain' and as markdown with 'markdown' or no formatType;
\* a null or empty description, and with 'plain' one whose plain text is
\* empty, shows as 'No description available'.
C14_DescriptionByFormat ==
  DetailsReturned /\ http.body.params.formatType \in FormatTypes \ {Str(<<"h", "t", "m", "l">>)} =>
    /\ ~result.isError
    /\ ShownDescription(result.text) =
         IF Truthy(fetched[1].page[1].description)
         THEN Rendered(fetched[1].page[1].description, http.body.params.formatType)
         ELSE <<"N", "o", " ", "d", "e", "s", "c", "r", "i", "p", "t", "i", "o", "n", " ", "a", "v", "a", "i", "l", "a", "b", "l", "e">>

\* C14's case: 'plain' was asked for and the description's plain text is
\* empty.
C14_Witness ==
  /\ DetailsReturned /\ http.body.params.formatType = Str(<<"p", "l", "a", "i", "n">>)
  /\ fetched[1].page[1].description = Str(<<"<", "p", ">", "<", "/", "p", ">">>)
  /\ ShownDescription(result.text) = <<"N", "o", " ", "d", "e", "s", "c", "r", "i", "p", "t", "i", "o", "n", " ", "a", "v", "a", "i", "l", "a", "b", "l", "e">>

\* C15: a details or content operation makes exactly one request to the
\* remote, the one for its assignment; when that request fails the result
\* is an error and holds no text presenting an assignment.
C15_DetailFailurePropagates ==
  DetailCall /\ http.ok /\ http.path = "/sse" /\ pc # "request" =>
    /\ requests = <<DetailRequest(http.body.params)>>
    /\ pc = "done" /\ thrown # NoError =>
         /\ result.isError
         /\ ~includes(result.text, <<"#", " ">>)
         /\ ~includes(result.text, <<"D", "e", "s", "c", "r", "i", "p", "t", "i", "o", "n">>)

\* C15's case: the request for an assignment's content failed.
C15_Witness ==
  /\ pc = "done" /\ ToolOf(http.body) = Str(<<"a", "s", "s", "i", "g", "n", "m", "e", "n", "t", "_", "c", "o", "n", "t", "e", "n", "t">>)
  /\ thrown \in RemoteErrors /\ fetched # <<>> /\ ~fetched[1].ok
  /\ result.isError /\ Len(requests) = 1

\* C22: a GET or POST request to /manifest is answered with the manifest as
\* JSON, naming the three tools and the resource, whoever the caller is.
C22_ManifestForAnyCaller ==
  pc = "done" /\ http.path = "/manifest" /\ http.method \in {"GET", "POST"} =>
    /\ result.status = "response" /\ result.code = 200
    /\ \A name \in {<<"l", "i", "s", "t", "_", "c", "o", "u", "r", "s", "e", "s">>, <<"s", "e", "a", "r", "c", "h", "_", "a", "s", "s", "i", "g", "n", "m", "e", "n", "t", "s">>, <<"g", "e", "t", "_", "a", "s", "s", "i", "g", "n", "m", "e", "n", "t">>,
                    <<"a", "s", "s", "i", "g", "n", "m", "e", "n", "t", "_", "c", "o", "n", "t", "e", "n", "t">>} :
         includes(result.text, <<"\"", "n", "a", "m", "e", "\"", ":", "\"">> \o name \o <<"\"">>)

\* Exactly one of the two bounds is given.
OneBound == Truthy(dueBefore) # Truthy(dueAfter)

\* An assignment passes the text filter, and the date filter as C23 has
\* it: bypassed with one bound, isDateInRange with both or neither.
Survives(assignment) ==
  /\ Len(QueryTerms) > 0 => HasQueryTerm(assignment)
  /\ OneBound \/ isDateInRange(assignment.due_at, dueBefore, dueAfter)

\* C23: in mcpCore.ts, with dueAfter alone every assignments request asks
\* for the bucket 'future', with dueBefore alone for 'past', and every
\* assignment of a delivered page that passes the text filter is returned
\* whatever its due date; with both bounds or neither no bucket is asked for
\* and an assignment that passes the text filter is returned exactly when
\* isDateInRange holds of it.
C23_BucketBypass ==
  entry = "worker" =>
    /\ \A i \in 1..Len(requests) :
         requests[i].kind = "assignments" =>
           requests[i].bucket =
             IF Truthy(dueAfter) /\ ~Truthy(dueBefore) THEN "future"
             ELSE IF Truthy(dueBefore) /\ ~Truthy(dueAfter) THEN "past"
             ELSE "none"
    /\ SearchDone =>
         \A k \in 1..Len(courses) :
           Delivered(k) =>
             \A i \in 1..Len(fetched[k].page) :
               (Len(QueryTerms) > 0 => HasQueryTerm(fetched[k].page[i])) =>
                 (InSeq(AssignmentMatch(fetched[k].page[i], courses[k]), result.items)
                    <=> \/ OneBound
                        \/ isDateInRange(fetched[k].page[i].due_at, dueBefore, dueAfter))

\* C23's case: dueAfter alone is given, the bucket 'future' was asked for,
\* and an assignment due before that day is returned.
C23_Witness ==
  /\ SearchDone /\ entry = "worker"
  /\ dueAfter = Str(<<"2", "0", "2", "4", "-", "0", "6", "-", "0", "2">>) /\ dueBefore = Undefined
  /\ requests[2].bucket = "future"
  /\ \E n \in 1..Len(result.items) :
       /\ result.items[n].due_at = Str(<<"2", "0", "2", "4", "-", "0", "6", "-", "0", "1", "T", "1", "2", ":", "0", "0", ":", "0", "0", "Z">>)
       /\ ~isDateInRange(result.items[n].due_at, dueBefore, dueAfter)

\* How many items of a sequence are tagged with the course k.
TaggedCount(items, k) ==
  Cardinality({ n \in 1..Len(items) : items[n].courseId = courses[k].id })

\* C24: every item mcpCore.ts returns is an assignment of the page of the
\* course whose name and id it carries, which passed the text filter and
\* the date filter; a course tags as many items as its page has survivors.
C24_MatchProvenance ==
  SearchDone /\ entry = "worker" =>
    /\ \A n \in 1..Len(result.items) :
         \E k \in 1..Len(courses) :
           /\ Delivered(k)
           /\ result.items[n].courseId = courses[k].id
           /\ result.items[n].courseName = courses[k].name
           /\ \E i \in 1..Len(fetched[k].page) :
                /\ Survives(fetched[k].page[i])
                /\ result.items[n] = AssignmentMatch(fetched[k].page[i], courses[k])
    /\ \A k \in 1..Len(courses) :
         TaggedCount(result.items, k) =
           IF Delivered(k)
           THEN Cardinality({ i \in 1..Len(fetched[k].page) : Survives(fetched[k].page[i]) })
           ELSE 0

\* C24's case: two courses delivered the same assignment, and it is returned
\* once for each, with each course's name; another assignment was filtered
\* out.
C24_Witness ==
  /\ SearchDone /\ entry = "worker" /\ Len(courses) = 2
  /\ fetched[1].ok /\ fetched[2].ok
  /\ \E i, j \in 1..Len(fetched[1].page) :
       /\ InSeq(fetched[1].page[i], fetched[2].page)
       /\ InSeq(AssignmentMatch(fetched[1].page[i], courses[1]), result.items)
       /\ InSeq(AssignmentMatch(fetched[1].page[i], courses[2]), result.items)
       /\ ~Survives(fetched[1].page[j])
  /\ Len(result.items) = 2

\* What the courses 1..k are to have added to the merged list, in order:
\* the survivors of each delivered page, tagged with its course.
RECURSIVE Contributed(_)
Contributed(k) ==
  IF k = 0 THEN <<>>
  ELSE Contributed(k - 1)
         \o (IF Delivered(k)
             THEN tagAll(SelectSeq(fetched[k].page, Survives), courses[k])
             ELSE <<>>)

\* Two sequences hold the same items the same number of times.
SameItems(s, u) ==
  /\ Len(s) = Len(u)
  /\ \A n \in 1..Len(s) :
       Cardinality({ m \in 1..Len(s) : s[m] = s[n] })
         = Cardinality({ m \in 1..Len(u) : u[m] = s[n] })

\* C25: in mcpCore.ts a course adds all of its survivors to the merged list,
\* once each, or, when its fetch or its filtering fails, nothing: while the
\* loop runs the merged list is the contributions of the courses answered so
\* far, in order, and the result holds exactly those of all the courses.
C25_AllOrNothing ==
  entry = "worker" =>
    /\ pc = "assignments" => allResults = Contributed(Len(fetched))
    /\ SearchDone =>
         /\ SameItems(allResults, Contributed(Len(courses)))
         /\ result.items = allResults

\* C25's case: the first course gave survivors, the second course's
\* filtering threw on a page that also holds a survivor, and the result is
\* what the first course gave.
C25_Witness ==
  /\ SearchDone /\ entry = "worker" /\ Len(courses) = 2
  /\ Delivered(1) /\ fetched[2].ok /\ ~Delivered(2)
  /\ \E i \in 1..Len(fetched[2].page) :
       fetched[2].page[i].name.tag = "str" /\ Survives(fetched[2].page[i])
  /\ Len(allResults) >= 1
  /\ TaggedCount(allResults, 1) = Len(allResults)

\* C26: a search issues one scope request and then one assignments request
\* per course of the scope, in scope order, the next one only when the one
\* before was answered or failed and none twice; it has returned when the
\* last one was answered or failed, after 1 + N requests.
C26_OneRequestPerCourse ==
  Len(requests) >= 1 =>
    /\ requests[1].kind \in {"course", "courses"}
    /\ \A i \in 2..Len(requests) :
         /\ i - 1 <= Len(courses)
         /\ requests[i] = AssignmentsRequest(courses[i - 1])
    /\ Len(requests) <= 1 + Len(courses)
    /\ pc = "scope" => Len(requests) = 1 /\ fetched = <<>>
    /\ pc = "assignments" => Len(requests) = Len(fetched) + 2
    /\ pc = "done" => Len(requests) = Len(fetched) + 1
    /\ scopeAnswer = "ok" /\ Len(fetched) = Len(courses) => pc = "done"
    /\ SearchDone => Len(requests) = 1 + Len(courses)

\* C26's case: of three requests the second failed, the third was answered,
\* and the search returned.
C26_Witness ==
  /\ SearchDone /\ Len(courses) = 2 /\ Len(requests) = 3
  /\ ~fetched[1].ok /\ fetched[2].ok
  /\ requests[2].course # requests[3].course

\* C21: every search returns; a request for a course's assignments that is
\* never answered ends as a failure of that course, and the search goes on
\* to return.
C21_EventuallyReturns == (pc = "assignments") ~> (pc = "done")

\* The line the n-th item of an ordered list block is to become.
ItemLine(n, content) == NumberToString(n) \o <<".", " ">> \o content \o <<"\n">>

\* C16: every item of an ordered list block is rendered as "<n>. <content>"
\* and a line end, <content> the item's text and <n> counted from 1 within
\* its block.
C16_OrderedListItems ==
  call.fn \in {"convertHtmlToMarkdown", "stdioMarkdown"} =>
    \A b \in 1..Len(call.arg.lists) :
      \A n \in 1..Len(call.arg.lists[b]) :
        includes(call.out, ItemLine(n, call.arg.lists[b][n]))

\* A tag-like span starts at s[i]: a "<", at least one character other than
\* ">", and a ">".
TagSpanAt(s, i) ==
  /\ s[i] = "<"
  /\ \E j \in (i + 2)..Len(s) : s[j] = ">" /\ \A k \in (i + 1)..(j - 1) : s[k] # ">"

NoTagSpan(s) == \A i \in 1..Len(s) : ~TagSpanAt(s, i)

\* C17: the markdown rendered of any markup holds no tag-like span, the tags
\* no pass converts being deleted; of "<h1>A</h1><p>B</p>" it holds "# A"
\* and, later, "B" and a blank line.
C17_NoTagsLeft ==
  call.fn \in {"convertHtmlToMarkdown", "stdioMarkdown"} =>
    /\ NoTagSpan(call.out)
    /\ call.arg.s = <<"<", "h", "1", ">", "A", "<", "/", "h", "1", ">", "<", "p", ">", "B", "<", "/", "p", ">">> =>
         \E i, j \in 1..Len(call.out) :
           /\ i < j
           /\ StartsWithAt(call.out, i, <<"#", " ", "A">>)
           /\ StartsWithAt(call.out, j, <<"B", "\n", "\n">>)

\* C17's case: markup of tags no pass converts, of which mcpCore.ts leaves
\* the text alone.
C17_Witness ==
  /\ call.fn = "convertHtmlToMarkdown"
  /\ call.arg.s = <<"<", "d", "i", "v", " ", "c", "l", "a", "s", "s", "=", "\"", "c", "\"", ">", "<", "s", "p", "a", "n", ">", "s", "<", "/", "s", "p", "a", "n", ">", "<", "a", " ", "h", "r", "e", "f", "=", "'", "u", "'", ">", "l", "<", "/", "a", ">", "<", "/", "d", "i", "v", ">">>
  /\ call.out = <<"s", "l">>

\* C18: htmlToPlainText gives the markup with every tag-like span removed,
\* then each "&nbsp;" as a space and each "&amp;" as "&", no other entity
\* decoded and every other character as it was; of null and of "" it gives
\* "".
C18_PlainText ==
  call.fn = "htmlToPlainText" =>
    /\ call.out = call.arg.want
    /\ NoTagSpan(call.out)

\* C18's case: "<b>Hi</b>&nbsp;there" gives "Hi there".
C18_Witness ==
  /\ call.fn = "htmlToPlainText"
  /\ call.arg.s = Str(<<"<", "b", ">", "H", "i", "<", "/", "b", ">", "&", "n", "b", "s", "p", ";", "t", "h", "e", "r", "e">>)
  /\ call.out = <<"H", "i", " ", "t", "h", "e", "r", "e">>

\* C19: a due date that is absent or unparsable is rendered as the fallback
\* text, "No date set" by formatDate and "No due date" by the handlers.
C19_DueDateFallback ==
  call.fn \in {"formatDate", "dueDateText"} /\ ~call.date.has =>
    call.out = (IF call.fn = "formatDate" THEN <<"N", "o", " ", "d", "a", "t", "e", " ", "s", "e", "t">> ELSE <<"N", "o", " ", "d", "u", "e", " ", "d", "a", "t", "e">>)

\* C20: parseDate gives null for every input that is no valid date (a
\* YYYY-MM-DD with its month or day out of range included) and local
\* midnight of the day for a valid bare YYYY-MM-DD.
C20_ParseDateNullOnInvalid ==
  call.fn = "parseDate" =>
    /\ ~call.arg.valid => call.out = NoInstant
    /\ call.arg.valid /\ call.arg.bare => call.out = LocalDayStart(call.arg.day)
====
